---- MODULE Spec2Model ----
(***************************************************************************)
(* Recursive rendering (app-of-apps), the parallel diff fan-out, the       *)
(* per-manifest diff, chart resolution, the descriptor parsers and the     *)
(* render and diff of one application of rita, modelled from helm.py,      *)
(* storage.py, argocd.py, models.py, kustomize.py and commands/render.py   *)
(* under src/src/rita.                                                     *)
(***************************************************************************)
EXTENDS Integers, Sequences, FiniteSets, TLC

\* ------------------------------------------------------------------ bounds
\* Largest max_depth argument given to the top-level render_recursive call.
MaxDepthBound == 3
\* Largest max_workers argument given to the top-level render_recursive call.
MaxWorkersBound == 2

\* ------------------------------------------------- program constants
\* render_recursive(..., max_workers: int = 4)
DefaultMaxWorkers == 4

\* --------------------------------------------------------------- inputs
\* An app-of-apps structure: which child descriptors the rendered output of
\* a descriptor holds, in the order parse_argocd_resources_from_manifest and
\* to_app_configs list them (nested Applications first, then the children of
\* the ApplicationSets).  The order is not the directory sort order.
\*   fan   : root -> b, a, c ; a -> g           (three siblings, a 3-level chain)
\*   nest  : root -> a, b    ; a -> h, g        (a fan-out below a fan-out)
\*   chain : root -> a ; a -> g                 (a 3-level chain)
\*   twins : root -> x1, x2                     (a nested Application and an
\*           ApplicationSet element, both named "x", rendering different charts)
\*   self  : root -> root                       (the output holds the descriptor
\*           itself)
\*   cycle : root -> a ; a -> root              (the output holds an ancestor)
Shapes == {"fan", "nest", "chain", "twins", "self", "cycle"}

Kids(s, app) ==
  CASE s = "fan"   /\ app = "root" -> <<"b", "a", "c">>
    [] s = "fan"   /\ app = "a"    -> <<"g">>
    [] s = "nest"  /\ app = "root" -> <<"a", "b">>
    [] s = "nest"  /\ app = "a"    -> <<"h", "g">>
    [] s = "chain" /\ app = "root" -> <<"a">>
    [] s = "chain" /\ app = "a"    -> <<"g">>
    [] s = "twins" /\ app = "root" -> <<"x1", "x2">>
    [] s = "self"  /\ app = "root" -> <<"root">>
    [] s = "cycle" /\ app = "root" -> <<"a">>
    [] s = "cycle" /\ app = "a"    -> <<"root">>
    [] OTHER -> <<>>

\* ArgoAppConfig.name of a descriptor.
Name(app) == IF app \in {"x1", "x2"} THEN "x" ELSE app

\* Position of a directory name in sorted(output_dir.iterdir()).
NameRank(n) ==
  CASE n = "a" -> 1 [] n = "b" -> 2 [] n = "c" -> 3 [] n = "g" -> 4
    [] n = "h" -> 5 [] n = "root" -> 6 [] n = "x" -> 7 [] OTHER -> 8

\* ---------------------------------------------------------- call frames
\* One call of render_recursive is a frame: the path of child indices that
\* leads to it from the top-level call.  Its length is current_depth.
RECURSIVE AppAt(_, _)
AppAt(s, f) ==
  IF f = <<>> THEN "root"
  ELSE Kids(s, AppAt(s, SubSeq(f, 1, Len(f) - 1)))[f[Len(f)]]

Parent(f) == SubSeq(f, 1, Len(f) - 1)

RECURSIVE FramesUpTo(_, _)
FramesUpTo(s, d) ==
  IF d = 0 THEN {<<>>}
  ELSE LET prev == FramesUpTo(s, d - 1)
           last == {f \in prev : Len(f) = d - 1}
       IN prev \cup UNION {{Append(f, i) : i \in 1..Len(Kids(s, AppAt(s, f)))} : f \in last}

Frames(s) == FramesUpTo(s, MaxDepthBound + 1)

\* child_output_dir = output_dir / child_app.name : the directory of a frame,
\* relative to the output_dir of the top-level call.
RECURSIVE DirOf(_, _)
DirOf(s, f) ==
  IF f = <<>> THEN <<>>
  ELSE Append(DirOf(s, Parent(f)), Name(AppAt(s, f)))

Dirs(s) == {DirOf(s, f) : f \in Frames(s)}

VARIABLES
  shape,        \* the app-of-apps structure being rendered
  max_depth,    \* render_recursive argument
  parallel,     \* render_recursive argument of the top-level call
  max_workers,  \* render_recursive argument of the top-level call
  frame,        \* frame -> state of that render_recursive call
  fs,           \* directory -> its _all.yaml
  \* _diff_manifests
  baseline_content,  \* argument: the baseline manifest stream
  new_content,       \* argument: the current manifest stream
  dpc,               \* idle, called, done
  has_diff,          \* returned flag
  diff_content,      \* returned text: the per-resource diff blocks
  \* render diff: the fan-out over the applications to diff
  workers,      \* --workers
  task,         \* application -> state of its _diff_single_app task
  results,      \* results list, in the order as_completed yields
  op,           \* the diff operation: running, completed, raised
  \* chart resolution
  resolver,          \* worker -> state of its render call
  chart_cache,       \* the shared S3 chart cache: key -> archive
  tmp_dirs,          \* the temporary directories created so far
  cache_configured,  \* get_chart_cache(config) is not None
  \* descriptor parsers
  pin,               \* the call: which parser, and the YAML text it is given
  pout,              \* what the parser returned
  ppc,               \* idle, called, done, raised
  \* Helm template invocation
  tcall,             \* the descriptor, the values files on disk, the outcomes
  tcmd,              \* the helm template commands run, by their --values
  tout,              \* what was written to output_dir
  tres,              \* the returned (success, message)
  tpc,               \* idle, called, done
  \* render and diff of one application
  scall,             \* the descriptor, the recursive flag, the outcomes of the
                     \* source renders, the output of an earlier render
  sdir,              \* the output directory rendered/<env>/<app>
  sres,              \* the RenderResult of _render_single_app
  sbase,             \* the baseline held by the storage backend
  sdiff,             \* the DiffResult of _diff_single_app
  spc                \* idle, called, rendered, failed, pushed, diffed

rconst == <<shape, max_depth, parallel, max_workers>>
rvars == <<shape, max_depth, parallel, max_workers, frame, fs>>
dvars == <<baseline_content, new_content, dpc, has_diff, diff_content>>
fvars == <<workers, task, results, op>>
\* chart resolution (prepare_chart_for_rendering) by concurrent workers
pvars == <<resolver, chart_cache, tmp_dirs, cache_configured>>
\* the descriptor parsers
qvars == <<pin, pout, ppc>>
\* the Helm template invocation
tvars == <<tcall, tcmd, tout, tres, tpc>>
\* the render and diff of one application
svars == <<scall, sdir, sres, sbase, sdiff, spc>>
\* everything that is neither render_recursive, _diff_manifests nor the diff
\* fan-out
evars == <<pvars, qvars, tvars, svars>>
vars == <<rvars, dvars, fvars, evars>>

\* ------------------------------------------------------- frame state
Done == {"returned", "raised"}
\* A call that has started and has not returned or raised: it renders, or
\* waits for its children.
Executing == {"rendering", "collecting", "draining", "looping"}

NoMsg == [text |-> "", nested |-> 0, errors |-> <<>>]

NewFrame ==
  [pc |-> "absent",        \* absent, called, queued, rendering, collecting,
                           \* draining, looping, returned, raised
   outcome |-> "none",     \* what render_helm_chart_to_string did: ok, fail,
                           \* auth (raised AWSTokenExpiredError), other (raised
                           \* another exception)
   mode |-> "none",        \* branch taken for the children: par, seq
   exc |-> "none",         \* exception the call raised: auth, other
   success |-> FALSE, msg |-> NoMsg, rendered |-> <<>>,   \* the returned tuple
   idx |-> 0,              \* sequential loop: index of the current child
   collected |-> {},       \* parallel loop: futures as_completed has yielded
   child_errors |-> <<>>, all_rendered |-> <<>>]

NoFile == [exists |-> FALSE, content |-> <<>>]

\* ------------------------------------------------------ rendered text
\* The text a successful render of a descriptor produces.
DocOf(app) == [t |-> "doc", v |-> app]
\* "# === <child_dir.name> ===\n"
Hdr(n) == [t |-> "hdr", v |-> n]
\* "\n---\n"
Sep == [t |-> "sep", v |-> ""]

\* "\n---\n".join(parts)
RECURSIVE Join(_)
Join(parts) ==
  IF parts = <<>> THEN <<>>
  ELSE IF Len(parts) = 1 THEN parts[1]
  ELSE parts[1] \o <<Sep>> \o Join(Tail(parts))

\* sorted(...) of a set of sibling directories: ascending directory name.
RECURSIVE SortDirs(_)
SortDirs(ds) ==
  IF ds = {} THEN <<>>
  ELSE LET m == CHOOSE d \in ds :
                  \A e \in ds : NameRank(d[Len(d)]) <= NameRank(e[Len(e)])
       IN <<m>> \o SortDirs(ds \ {m})

\* child_dir.name.startswith("_") : no descriptor of the inputs is named so.
StartsWithUnderscore(n) == FALSE

RECURSIVE ChildParts(_, _)
ChildParts(fsys, sorted) ==
  IF sorted = <<>> THEN <<>>
  ELSE LET d == Head(sorted)
           part == IF fsys[d].exists
                   THEN << <<Hdr(d[Len(d)])>> \o fsys[d].content >>
                   ELSE <<>>
       IN part \o ChildParts(fsys, Tail(sorted))

\* _write_combined_recursive_output(output_dir)
WriteCombined(fsys, dir) ==
  LET parentPart == IF fsys[dir].exists THEN <<fsys[dir].content>> ELSE <<>>
      childDirs == {d \in DOMAIN fsys :
                      /\ Len(d) = Len(dir) + 1
                      /\ SubSeq(d, 1, Len(dir)) = dir
                      /\ ~StartsWithUnderscore(d[Len(d)])}
      all_content == parentPart \o ChildParts(fsys, SortDirs(childDirs))
  IN IF all_content = <<>> THEN fsys
     ELSE [fsys EXCEPT ![dir] = [exists |-> TRUE, content |-> Join(all_content)]]

\* ------------------------------------------------------------ messages
MaxDepthMsg == [text |-> "Max recursion depth reached", nested |-> 0, errors |-> <<>>]
\* prep_msg of a successful render
PrepMsg == [text |-> "Chart pulled", nested |-> 0, errors |-> <<>>]
\* message of a render that returns success = False
FailMsg == [text |-> "Helm template failed", nested |-> 0, errors |-> <<>>]
\* str(e) of an exception
ExcText(e) == IF e = "auth" THEN "AWS SSO token has expired" ELSE "boom"

\* f"{app_name}: {child_msg}"
ChildError(n, text) == [name |-> n, msg |-> text]

\* ------------------------------------------------- render_recursive
\* Mutant of DepthReached: the bound is tested one level late.
DepthReachedLate(current_depth, bound) == current_depth > bound

\* if current_depth >= max_depth
DepthReached(current_depth, bound) == current_depth >= bound

\* Mutant of ChildDepth: the child is called with the depth of its parent.
ChildDepthSame(current_depth) == current_depth

\* _render_child_app: render_recursive(..., max_depth, current_depth + 1)
ChildDepth(current_depth) == current_depth + 1

\* The first statement of a call: the depth check.
Enter(fr, current_depth) ==
  IF DepthReached(current_depth, max_depth)
  THEN [fr EXCEPT !.pc = "returned", !.success = TRUE, !.msg = MaxDepthMsg,
                  !.rendered = <<>>]
  ELSE [fr EXCEPT !.pc = "rendering"]

\* _render_child_app passes neither parallel nor max_workers: a nested call
\* runs with the defaults.
ParallelAt(f) == IF f = <<>> THEN parallel ELSE TRUE
WidthAt(f) == IF f = <<>> THEN max_workers ELSE DefaultMaxWorkers

KidsOf(f) == Kids(shape, AppAt(shape, f))
NameOf(f) == Name(AppAt(shape, f))
IsKid(g, f) == Len(g) = Len(f) + 1 /\ Parent(g) = f

\* if parallel and len(all_child_apps) > 1
UseParallel(f) == ParallelAt(f) /\ Len(KidsOf(f)) > 1

RInit ==
  /\ shape \in Shapes
  /\ max_depth \in 0..MaxDepthBound
  /\ parallel \in BOOLEAN
  /\ max_workers \in 1..MaxWorkersBound
  /\ frame = [f \in Frames(shape) |->
                IF f = <<>> THEN [NewFrame EXCEPT !.pc = "called"] ELSE NewFrame]
  \* every caller hands render_recursive an empty output directory
  /\ fs = [d \in Dirs(shape) |-> NoFile]

\* The top-level call is entered.
RootCall ==
  /\ frame[<<>>].pc = "called"
  /\ frame' = [frame EXCEPT ![<<>>] = Enter(@, 0)]
  /\ UNCHANGED <<rconst, fs, dvars, fvars, evars>>

\* render_helm_chart_to_string ends with outcome o; on success the output is
\* written, the children are parsed, and the children are submitted to a
\* fresh pool (parallel branch) or the sequential loop starts.
Render(f, o) ==
  /\ frame[f].pc = "rendering"
  /\ IF o = "ok"
     THEN /\ fs' = [fs EXCEPT ![DirOf(shape, f)] =
                       [exists |-> TRUE, content |-> <<DocOf(AppAt(shape, f))>>]]
          /\ IF KidsOf(f) = <<>>
             THEN frame' = [frame EXCEPT ![f] =
                      [@ EXCEPT !.outcome = o, !.pc = "returned", !.success = TRUE,
                                !.msg = PrepMsg, !.rendered = <<NameOf(f)>>,
                                !.all_rendered = <<NameOf(f)>>]]
             ELSE IF UseParallel(f)
             THEN frame' = [g \in DOMAIN frame |->
                      IF g = f
                      THEN [frame[g] EXCEPT !.outcome = o, !.pc = "collecting",
                                            !.mode = "par",
                                            !.all_rendered = <<NameOf(f)>>]
                      ELSE IF IsKid(g, f) THEN [frame[g] EXCEPT !.pc = "queued"]
                      ELSE frame[g]]
             ELSE frame' = [frame EXCEPT ![f] =
                      [@ EXCEPT !.outcome = o, !.pc = "looping", !.mode = "seq",
                                !.idx = 1, !.all_rendered = <<NameOf(f)>>]]
     ELSE /\ fs' = fs
          /\ IF o = "fail"
             THEN frame' = [frame EXCEPT ![f] =
                      [@ EXCEPT !.outcome = o, !.pc = "returned", !.success = FALSE,
                                !.msg = FailMsg, !.rendered = <<>>]]
             ELSE frame' = [frame EXCEPT ![f] =
                      [@ EXCEPT !.outcome = o, !.pc = "raised", !.exc = o]]
  /\ UNCHANGED <<rconst, dvars, fvars, evars>>

KidFrame(p, i) == Append(p, i)
KidIdx(p) == 1..Len(KidsOf(p))

\* Mutant of IsAuthExpired: the loop treats the token expiry like any other
\* exception of a child.
IsAuthExpiredNever(e) == FALSE

\* isinstance(e, AWSTokenExpiredError).  No statement of the repository
\* raises another exception "from" an AWSTokenExpiredError, so the __cause__
\* test never decides differently.
IsAuthExpired(e) == e = "auth"

\* Mutant of WorkerFree: the pool starts every submitted task at once.
WorkerFreeAlways(p) == TRUE

\* ThreadPoolExecutor(max_workers=...) : a worker of p's pool is idle.
WorkerFree(p) ==
  Cardinality({j \in KidIdx(p) : frame[KidFrame(p, j)].pc \in Executing}) < WidthAt(p)

\* A worker of p's pool takes the next submitted task (the work queue is
\* first-in first-out) and runs _render_child_app, which calls
\* render_recursive with current_depth + 1.
WorkerStart(p, i) ==
  /\ frame[p].pc \in {"collecting", "draining"}
  /\ frame[KidFrame(p, i)].pc = "queued"
  /\ \A j \in 1..(i - 1) : frame[KidFrame(p, j)].pc # "queued"
  /\ WorkerFree(p)
  /\ frame' = [frame EXCEPT ![KidFrame(p, i)] = Enter(@, ChildDepth(Len(p)))]
  /\ UNCHANGED <<rconst, fs, dvars, fvars, evars>>

\* One iteration of "for future in as_completed(futures)".
Collect(p, i) ==
  LET k == frame[KidFrame(p, i)] IN
  /\ frame[p].pc = "collecting"
  /\ i \notin frame[p].collected
  /\ k.pc \in Done
  /\ frame' = [frame EXCEPT ![p] =
       IF k.pc = "returned"
       THEN IF k.success
            THEN [@ EXCEPT !.collected = @ \cup {i},
                           !.all_rendered = @ \o k.rendered]
            ELSE [@ EXCEPT !.collected = @ \cup {i},
                           !.child_errors =
                              Append(@, ChildError(NameOf(KidFrame(p, i)), k.msg.text))]
       ELSE IF IsAuthExpired(k.exc)
            THEN [@ EXCEPT !.collected = @ \cup {i}, !.pc = "draining"]
            ELSE [@ EXCEPT !.collected = @ \cup {i},
                           !.child_errors =
                              Append(@, ChildError(NameOf(KidFrame(p, i)), ExcText(k.exc)))]]
  /\ UNCHANGED <<rconst, fs, dvars, fvars, evars>>

\* Mutant of PoolDrained: the pool is shut down without waiting.
PoolDrainedNoWait(p) == TRUE

\* ThreadPoolExecutor.__exit__ : shutdown(wait=True) joins the workers, which
\* first run every task that was submitted.
PoolDrained(p) == \A j \in KidIdx(p) : frame[KidFrame(p, j)].pc \in Done

\* The exception re-raised in the loop leaves the "with ThreadPoolExecutor"
\* block: shutdown(wait=True) returns once every submitted task has run, and
\* the exception reaches the caller.
PoolShutdown(p) ==
  /\ frame[p].pc = "draining"
  /\ PoolDrained(p)
  /\ frame' = [frame EXCEPT ![p] = [@ EXCEPT !.pc = "raised", !.exc = "auth"]]
  /\ UNCHANGED <<rconst, fs, dvars, fvars, evars>>

\* Sequential branch: the loop calls _render_child_app for the next child.
SeqCall(p) ==
  /\ frame[p].pc = "looping"
  /\ frame[p].idx \in KidIdx(p)
  /\ frame[KidFrame(p, frame[p].idx)].pc = "absent"
  /\ frame' = [frame EXCEPT ![KidFrame(p, frame[p].idx)] = Enter(@, ChildDepth(Len(p)))]
  /\ UNCHANGED <<rconst, fs, dvars, fvars, evars>>

\* Sequential branch: the call of the current child ends.  Nothing catches an
\* exception here: it leaves render_recursive.
SeqCollect(p) ==
  LET i == frame[p].idx
      k == frame[KidFrame(p, i)] IN
  /\ frame[p].pc = "looping"
  /\ i \in KidIdx(p)
  /\ k.pc \in Done
  /\ frame' = [frame EXCEPT ![p] =
       IF k.pc = "returned"
       THEN IF k.success
            THEN [@ EXCEPT !.idx = i + 1, !.all_rendered = @ \o k.rendered]
            ELSE [@ EXCEPT !.idx = i + 1,
                           !.child_errors =
                              Append(@, ChildError(NameOf(KidFrame(p, i)), k.msg.text))]
       ELSE [@ EXCEPT !.pc = "raised", !.exc = k.exc]]
  /\ UNCHANGED <<rconst, fs, dvars, fvars, evars>>

\* f"Rendered with {len(all_rendered) - 1} nested resources{error_msg}"
NestedMsg(all_rendered, child_errors) ==
  [text |-> "Rendered with nested resources", nested |-> Len(all_rendered) - 1,
   errors |-> child_errors]

\* Every child has been gathered: the combined output is rebuilt and the call
\* returns (True, message, all_rendered).
LevelReturn(p) ==
  /\ \/ frame[p].pc = "collecting" /\ frame[p].collected = KidIdx(p)
     \/ frame[p].pc = "looping" /\ frame[p].idx > Len(KidsOf(p))
  /\ fs' = WriteCombined(fs, DirOf(shape, p))
  /\ frame' = [frame EXCEPT ![p] =
       [@ EXCEPT !.pc = "returned", !.success = TRUE,
                 !.msg = NestedMsg(frame[p].all_rendered, frame[p].child_errors),
                 !.rendered = frame[p].all_rendered]]
  /\ UNCHANGED <<rconst, dvars, fvars, evars>>

Outcomes == {"ok", "fail", "auth", "other"}

\* No _diff_manifests call and no diff fan-out is in progress.
DIdle ==
  /\ baseline_content = <<>> /\ new_content = <<>> /\ dpc = "idle"
  /\ has_diff = FALSE /\ diff_content = <<>>
FIdle == workers = 0 /\ task = <<>> /\ results = <<>> /\ op = "idle"

\* No chart resolution is in progress.
PIdle ==
  /\ resolver = <<>> /\ chart_cache = <<>> /\ tmp_dirs = {}
  /\ cache_configured = FALSE

\* No parser call is in progress.
QIdle == pin = <<>> /\ pout = <<>> /\ ppc = "idle"

TIdle == tcall = <<>> /\ tcmd = <<>> /\ tout = <<>> /\ tres = <<>> /\ tpc = "idle"

SIdle ==
  /\ scall = <<>> /\ sdir = <<>> /\ sres = <<>> /\ sbase = <<>> /\ sdiff = <<>>
  /\ spc = "idle"

EIdle == PIdle /\ QIdle /\ TIdle /\ SIdle

Init == RInit /\ DIdle /\ FIdle /\ EIdle

Next ==
  \/ RootCall
  \/ \E f \in DOMAIN frame, o \in Outcomes : Render(f, o)
  \/ \E p \in DOMAIN frame : \E i \in KidIdx(p) : WorkerStart(p, i)
  \/ \E p \in DOMAIN frame : \E i \in KidIdx(p) : Collect(p, i)
  \/ \E p \in DOMAIN frame : PoolShutdown(p)
  \/ \E p \in DOMAIN frame : SeqCall(p)
  \/ \E p \in DOMAIN frame : SeqCollect(p)
  \/ \E p \in DOMAIN frame : LevelReturn(p)

Spec == Init /\ [][Next]_vars

\* Every external render call returns and every thread is scheduled: a step
\* that can be taken is taken.
SpecLive == Spec /\ WF_vars(Next)

\* ------------------------------------------------ render_recursive: claims
IsPrefix(q, f) == Len(q) <= Len(f) /\ SubSeq(f, 1, Len(q)) = q
Range(sq) == {sq[k] : k \in 1..Len(sq)}
\* The call of a child ended in a failure that is not the token expiry: it
\* returned success = False, or raised another exception.
KidFailed(k) ==
  \/ k.pc = "returned" /\ ~k.success
  \/ k.pc = "raised" /\ k.exc = "other"
KidFailText(k) == IF k.pc = "returned" THEN k.msg.text ELSE ExcText(k.exc)
NoAuthBelow(p) ==
  \A f \in DOMAIN frame : IsPrefix(p, f) => frame[f].outcome # "auth"

\* C1: when the render of a descriptor succeeds and no descendant hits the
\* token expiry, the call returns success = True, every child has been
\* attempted, and each failed child is named "<childName>: <message>" in the
\* returned message.
C1_SiblingFailuresCollected ==
  \A p \in DOMAIN frame :
    (/\ frame[p].outcome = "ok"
     /\ NoAuthBelow(p)
     /\ frame[p].pc \in Done)
    => /\ frame[p].pc = "returned"
       /\ frame[p].success
       /\ \A i \in KidIdx(p) :
            LET k == frame[KidFrame(p, i)] IN
            /\ k.pc \in Done
            /\ KidFailed(k) =>
                 ChildError(NameOf(KidFrame(p, i)), KidFailText(k))
                   \in Range(frame[p].msg.errors)

\* C2: a token expiry raised by the render of a descendant at any depth makes
\* every call above it, the top-level call included, raise the token expiry
\* instead of returning, in the parallel and in the sequential branch; in the
\* parallel branch another exception of a child is recorded as that child's
\* error and the level never raises it.
C2_AuthExpiryPropagates ==
  /\ \A f \in DOMAIN frame : \A q \in DOMAIN frame :
       (frame[f].outcome = "auth" /\ IsPrefix(q, f) /\ frame[q].pc \in Done)
       => (frame[q].pc = "raised" /\ frame[q].exc = "auth")
  /\ \A p \in DOMAIN frame :
       frame[p].mode = "par"
       => /\ frame[p].pc = "raised" => frame[p].exc = "auth"
          /\ \A i \in frame[p].collected :
               LET k == frame[KidFrame(p, i)] IN
               (k.pc = "raised" /\ k.exc = "other")
               => ChildError(NameOf(KidFrame(p, i)), ExcText("other"))
                    \in Range(frame[p].child_errors)

\* C2 witness: a grandchild raised the token expiry, its parent (sequential
\* branch) and the top-level call (parallel branch) raised it, and the
\* top-level call had recorded another child's exception.
C2_Witness ==
  /\ frame[<<>>].pc = "raised" /\ frame[<<>>].exc = "auth"
  /\ frame[<<>>].mode = "par"
  /\ \E e \in Range(frame[<<>>].child_errors) : e.msg = ExcText("other")
  /\ \E f \in DOMAIN frame :
       /\ Len(f) = 2 /\ frame[f].outcome = "auth"
       /\ frame[Parent(f)].mode = "seq" /\ frame[Parent(f)].pc = "raised"

\* C3: no call at depth >= max_depth invokes the renderer or writes output, and
\* such a call returns (True, _, []); with max_depth = 2 a 3-level chain whose
\* renders succeed has exactly levels 0 and 1 rendered and the top-level call
\* succeeds.
C3_DepthBound ==
  /\ \A f \in DOMAIN frame :
       Len(f) >= max_depth
       => /\ frame[f].outcome = "none"
          /\ ~fs[DirOf(shape, f)].exists
          /\ frame[f].pc \notin {"absent", "called", "queued"}
             => (frame[f].pc = "returned" /\ frame[f].success
                 /\ frame[f].rendered = <<>>)
  /\ (/\ shape = "chain" /\ max_depth = 2
      /\ frame[<<>>].pc \in Done
      /\ \A f \in DOMAIN frame : frame[f].outcome \in {"none", "ok"})
     => /\ frame[<<>>].pc = "returned" /\ frame[<<>>].success
        /\ frame[<<>>].rendered = <<"root", "a">>
        /\ \A f \in DOMAIN frame : (frame[f].outcome = "ok") <=> (Len(f) < 2)

\* C3 witness: the 3-level chain rendered with max_depth = 2; the call for
\* level 2 was made and returned "max depth reached".
C3_Witness ==
  /\ shape = "chain" /\ max_depth = 2
  /\ frame[<<>>].pc = "returned" /\ frame[<<>>].rendered = <<"root", "a">>
  /\ frame[<<1, 1>>].pc = "returned" /\ frame[<<1, 1>>].msg = MaxDepthMsg

\* Children of f in ascending directory-name order (equal names in list order).
RECURSIVE SortKids(_, _)
SortKids(f, is) ==
  IF is = {} THEN <<>>
  ELSE LET m == CHOOSE i \in is : \A j \in is :
                  \/ NameRank(NameOf(KidFrame(f, i))) < NameRank(NameOf(KidFrame(f, j)))
                  \/ /\ NameRank(NameOf(KidFrame(f, i))) = NameRank(NameOf(KidFrame(f, j)))
                     /\ i <= j
       IN <<m>> \o SortKids(f, is \ {m})

\* The combined file the claim describes for a call, from the render outcomes
\* alone: the call's own rendered text, then, for each child whose render
\* succeeded, in ascending name order, a delimiter naming the child and the
\* child's combined text.
RECURSIVE ExpectedFile(_)
ExpectedFile(f) ==
  LET own == <<DocOf(AppAt(shape, f))>>
      order == SortKids(f, {i \in KidIdx(f) : frame[KidFrame(f, i)].outcome = "ok"})
      parts == [k \in 1..Len(order) |->
                  <<Hdr(NameOf(KidFrame(f, order[k])))>>
                    \o ExpectedFile(KidFrame(f, order[k]))]
  IN IF frame[f].pc = "returned" /\ KidsOf(f) # <<>>
     THEN Join(<<own>> \o parts)
     ELSE own

\* C4: the combined file a level writes is the parent's own text, then the
\* combined text of each successfully rendered child in ascending name order,
\* each after a delimiter naming the child, whatever the completion order.
C4_CombinedOutputDeterministic ==
  \A p \in DOMAIN frame :
    (frame[p].pc = "returned" /\ frame[p].outcome = "ok" /\ KidsOf(p) # <<>>)
    => fs[DirOf(shape, p)] = [exists |-> TRUE, content |-> ExpectedFile(p)]

\* C5: in the parallel branch a level never has more than its pool width of
\* its own children executing.
C5_PoolWidth ==
  \A p \in DOMAIN frame :
    frame[p].mode = "par"
    => Cardinality({i \in KidIdx(p) : frame[KidFrame(p, i)].pc \in Executing})
         <= WidthAt(p)

\* C5 witness: the top-level pool of width 1 is full, with a task waiting for
\* it, while the running child has two children of its own executing in the
\* pool it created.
C5_Witness ==
  /\ shape = "nest" /\ max_workers = 1 /\ frame[<<>>].mode = "par"
  /\ frame[<<1>>].mode = "par" /\ frame[<<2>>].pc = "queued"
  /\ frame[<<1, 1>>].pc = "rendering" /\ frame[<<1, 2>>].pc = "rendering"

\* C6: a failure of a descendant that is not the token expiry is named in the
\* message the top-level call returns, and the descendants whose render
\* succeeded are reported as rendered.
C6_DescendantFailureVisible ==
  frame[<<>>].pc = "returned"
  => \A f \in DOMAIN frame :
       (f # <<>> /\ frame[f].outcome \in {"fail", "other"})
       => \E e \in Range(frame[<<>>].msg.errors) : e.name = NameOf(f)

\* ------------------------------------------------------ _diff_manifests
\* Largest number of "\n---\n"-separated documents in a manifest stream.
MaxDocs == 2

\* def _diff_manifests(..., max_lines_per_manifest: int = 250); no caller
\* passes another value.
MaxLinesPerManifest == 250

\* One "\n---\n"-separated segment of a manifest stream:
\*   cls  : what yaml.safe_load makes of it: map (a mapping), list (a value
\*          that is not a mapping), bad (yaml.YAMLError), blank (empty text)
\*   pad  : the segment has leading or trailing white space
\*   body : the rest of its text
\*   meta : the value of the mapping's metadata key: map (a mapping), absent (no
\*          such key), null, str (a scalar)
Doc(cls, kind, ns, name, body, pad) ==
  [cls |-> cls, kind |-> kind, ns |-> ns, name |-> name, body |-> body, pad |-> pad,
   meta |-> "map"]

\* A mapping whose metadata is not a mapping; doc.get("metadata", {}) is {} only
\* when the key is absent, and then the name is "unnamed".
OddDoc(kind, meta, body) ==
  [Doc("map", kind, "", "unnamed", body, FALSE) EXCEPT !.meta = meta]

DepR3 == Doc("map", "Deployment", "ns", "app", "replicas: 3", FALSE)
DepR5 == Doc("map", "Deployment", "ns", "app", "replicas: 5", FALSE)
Svc == Doc("map", "Service", "ns", "app-svc", "port: 80", FALSE)
\* a mapping with no metadata.namespace, with white space around it
CmPad == Doc("map", "ConfigMap", "", "cfg", "data: {}", TRUE)
\* the same mapping without the white space
Cm == Doc("map", "ConfigMap", "", "cfg", "data: {}", FALSE)
Bad == Doc("bad", "", "", "", "key: [unclosed", FALSE)
Lst == Doc("list", "", "", "", "- item", FALSE)
Blank == Doc("blank", "", "", "", "", FALSE)

NoMeta == OddDoc("Deployment", "absent", "spec: {}")
NullMeta == OddDoc("Job", "null", "metadata: null")
StrMeta == OddDoc("Pod", "str", "metadata: text")

RawDocs == {DepR3, DepR5, Svc, CmPad, Cm, Bad, Lst, NoMeta, NullMeta, StrMeta}
Streams == UNION {[1..n -> RawDocs] : n \in 0..MaxDocs}

\* content.split("\n---\n") : the empty text splits into one empty segment.
Split(content) == IF content = <<>> THEN <<Blank>> ELSE content

\* raw.strip()
Strip(raw) == [raw EXCEPT !.pad = FALSE]

\* hash(raw), as text; one value per distinct text within a process.
Hash(raw) == raw.body

\* metadata.get("name", "unnamed") raises AttributeError when metadata is not a
\* mapping.
GetManifestNameRaises(doc) == doc.meta \in {"null", "str"}

\* _get_manifest_name(doc) : "kind/namespace/name", or "kind/name".
GetManifestName(doc) ==
  IF doc.ns # "" THEN <<doc.kind, doc.ns, doc.name>> ELSE <<doc.kind, doc.name>>

\* parse_docs: identity -> raw text; a later document replaces an earlier one
\* with the same identity, a value that is not a mapping is skipped.
RECURSIVE ParseDocs(_, _)
ParseDocs(docs_raw, result) ==
  IF docs_raw = <<>> THEN result
  ELSE LET raw == Strip(Head(docs_raw))
           next == CASE raw.cls = "blank" -> result
                     [] raw.cls = "map" -> (GetManifestName(raw) :> raw) @@ result
                     [] raw.cls = "bad" -> (<<"unparseable", Hash(raw)>> :> raw) @@ result
                     [] OTHER -> result
       IN ParseDocs(Tail(docs_raw), next)

\* parse_docs catches yaml.YAMLError only: the AttributeError of
\* _get_manifest_name leaves parse_docs.
ParseDocsRaises(docs_raw) ==
  \E k \in DOMAIN docs_raw :
    Strip(docs_raw[k]).cls = "map" /\ GetManifestNameRaises(Strip(docs_raw[k]))

\* Position of an identity string in sorted(all_identities).
IdRank(id) ==
  CASE id = <<"ConfigMap", "cfg">> -> 1
    [] id = <<"Deployment", "ns", "app">> -> 2
    [] id = <<"Deployment", "unnamed">> -> 3
    [] id = <<"Service", "ns", "app-svc">> -> 4
    [] id = <<"unparseable", Hash(Bad)>> -> 5
    [] OTHER -> 6

RECURSIVE SortIds(_)
SortIds(ids) ==
  IF ids = {} THEN <<>>
  ELSE LET m == CHOOSE i \in ids : \A j \in ids : IdRank(i) <= IdRank(j)
       IN <<m>> \o SortIds(ids \ {m})

\* raw.splitlines(keepends=True)
SplitLines(raw) ==
  CASE raw.cls = "map" /\ raw.ns # "" ->
         <<<<"kind", raw.kind>>, <<"namespace", raw.ns>>, <<"name", raw.name>>, <<raw.body>>>>
    [] raw.cls = "map" /\ raw.ns = "" ->
         <<<<"kind", raw.kind>>, <<"name", raw.name>>, <<raw.body>>>>
    [] raw.cls = "blank" -> <<>>
    [] OTHER -> <<<<raw.body>>>>

Tagged(tag, lines) == [k \in 1..Len(lines) |-> [tag |-> tag, text |-> lines[k]]]
FirstN(sq, n) == SubSeq(sq, 1, IF Len(sq) < n THEN Len(sq) ELSE n)
More(sq, n) == IF Len(sq) > n THEN Len(sq) - n ELSE 0

RECURSIVE CommonPrefix(_, _)
CommonPrefix(a, b) ==
  IF a = <<>> \/ b = <<>> \/ Head(a) # Head(b) THEN 0
  ELSE 1 + CommonPrefix(Tail(a), Tail(b))

Reverse(sq) == [k \in 1..Len(sq) |-> sq[Len(sq) + 1 - k]]

\* difflib.unified_diff(a, b, n=150) : nothing for equal inputs; otherwise the
\* two file headers and one hunk (documents are shorter than the context).
UnifiedDiff(a, b) ==
  IF a = b THEN <<>>
  ELSE LET pre == CommonPrefix(a, b)
           ra == SubSeq(a, pre + 1, Len(a))
           rb == SubSeq(b, pre + 1, Len(b))
           suf == CommonPrefix(Reverse(ra), Reverse(rb))
       IN <<[tag |-> "---", text |-> <<"baseline">>],
            [tag |-> "+++", text |-> <<"current">>],
            [tag |-> "@@", text |-> <<"hunk">>]>>
          \o Tagged(" ", SubSeq(a, 1, pre))
          \o Tagged("-", SubSeq(ra, 1, Len(ra) - suf))
          \o Tagged("+", SubSeq(rb, 1, Len(rb) - suf))
          \o Tagged(" ", SubSeq(ra, Len(ra) - suf + 1, Len(ra)))

\* docs.get(identity, ("", {}))[0]
RawOf(docs, id) == IF id \in DOMAIN docs THEN docs[id] ELSE Blank

\* Mutant of AllIdentities: only the identities of the current stream.
AllIdentitiesNewOnly(baseline_docs, new_docs) == DOMAIN new_docs

\* all_identities = set(baseline_docs.keys()) | set(new_docs.keys())
AllIdentities(baseline_docs, new_docs) == DOMAIN baseline_docs \cup DOMAIN new_docs

\* The body of the loop over sorted(all_identities): the blocks appended for one
\* identity (none or one).
BlockFor(baseline_docs, new_docs, id) ==
  LET baseline_raw == RawOf(baseline_docs, id)
      new_raw == RawOf(new_docs, id)
      baseline_lines == IF baseline_raw # Blank THEN SplitLines(baseline_raw) ELSE <<>>
      new_lines == IF new_raw # Blank THEN SplitLines(new_raw) ELSE <<>>
      diff == UnifiedDiff(baseline_lines, new_lines)
  IN IF baseline_raw = new_raw THEN <<>>
     ELSE IF baseline_raw = Blank
     THEN <<[type |-> "added", identity |-> id,
             lines |-> Tagged("+", FirstN(new_lines, MaxLinesPerManifest)),
             more |-> More(new_lines, MaxLinesPerManifest)]>>
     ELSE IF new_raw = Blank
     THEN <<[type |-> "removed", identity |-> id,
             lines |-> Tagged("-", FirstN(baseline_lines, MaxLinesPerManifest)),
             more |-> More(baseline_lines, MaxLinesPerManifest)]>>
     ELSE IF diff # <<>>
     THEN <<[type |-> "changed", identity |-> id,
             lines |-> FirstN(diff, MaxLinesPerManifest),
             more |-> More(diff, MaxLinesPerManifest)]>>
     ELSE <<>>

RECURSIVE Blocks(_, _, _)
Blocks(baseline_docs, new_docs, ids) ==
  IF ids = <<>> THEN <<>>
  ELSE BlockFor(baseline_docs, new_docs, Head(ids))
       \o Blocks(baseline_docs, new_docs, Tail(ids))

\* Mutant of DiffReturn: the test for an empty list of blocks is missing.
DiffReturnNoTest(diffs) == [has_diff |-> TRUE, diff_content |-> diffs]

\* if not diffs: return False, "" ; return True, "\n".join(diffs)
DiffReturn(diffs) ==
  IF diffs = <<>> THEN [has_diff |-> FALSE, diff_content |-> <<>>]
  ELSE [has_diff |-> TRUE, diff_content |-> diffs]

\* _diff_manifests has no try block of its own: what parse_docs raises leaves it.
DiffManifestsRaises(baseline, new) ==
  ParseDocsRaises(Split(baseline)) \/ ParseDocsRaises(Split(new))

\* _diff_manifests(baseline_content, new_content), when it returns
DiffManifests(baseline, new) ==
  LET baseline_docs == ParseDocs(Split(baseline), <<>>)
      new_docs == ParseDocs(Split(new), <<>>)
  IN DiffReturn(Blocks(baseline_docs, new_docs,
                       SortIds(AllIdentities(baseline_docs, new_docs))))

\* No render_recursive call is in progress.
RIdle ==
  /\ shape = "none" /\ max_depth = 0 /\ parallel = FALSE /\ max_workers = 0
  /\ frame = <<>> /\ fs = <<>>

DiffInit ==
  /\ baseline_content \in Streams
  /\ new_content \in Streams
  /\ dpc = "called"
  /\ has_diff = FALSE /\ diff_content = <<>>
  /\ RIdle /\ FIdle /\ EIdle

DiffCall ==
  /\ dpc = "called"
  /\ IF DiffManifestsRaises(baseline_content, new_content)
     THEN /\ dpc' = "raised"
          /\ UNCHANGED <<has_diff, diff_content>>
     ELSE /\ LET r == DiffManifests(baseline_content, new_content) IN
               /\ has_diff' = r.has_diff
               /\ diff_content' = r.diff_content
          /\ dpc' = "done"
  /\ UNCHANGED <<baseline_content, new_content, rvars, fvars, evars>>

DiffNext == DiffCall

SpecDiff == DiffInit /\ [][DiffNext]_vars

\* ---------------------------------------------- _diff_manifests: claims
NoIdentity == <<>>

\* The identity a segment of a stream is filed under, if any.
DocIdentity(raw) ==
  CASE raw.cls = "map" /\ raw.meta \in {"map", "absent"} -> GetManifestName(raw)
    [] raw.cls = "bad" -> <<"unparseable", Hash(raw)>>
    [] OTHER -> NoIdentity

IdsIn(stream) == {DocIdentity(stream[k]) : k \in DOMAIN stream} \ {NoIdentity}

Positions(stream, id) == {k \in DOMAIN stream : DocIdentity(stream[k]) = id}

\* The text a stream holds for an identity: that of its last document with the
\* identity, without surrounding white space; Blank if it has none.
TextIn(stream, id) ==
  IF Positions(stream, id) = {} THEN Blank
  ELSE LET last == CHOOSE k \in Positions(stream, id) :
                     \A j \in Positions(stream, id) : j <= k
       IN Strip(stream[last])

BlocksOf(id) == {k \in DOMAIN diff_content : diff_content[k].identity = id}

BlockTypes == {diff_content[k].type : k \in DOMAIN diff_content}

HasLine(block, tag, text) ==
  \E k \in DOMAIN block.lines :
    block.lines[k].tag = tag /\ block.lines[k].text = text

\* C8: _diff_manifests(X, X) returns hasDiff = false and an empty diff text, and
\* hasDiff is false exactly when no per-resource block was produced.
C8_SelfDiffEmpty ==
  /\ (dpc \in {"done", "raised"} /\ baseline_content = new_content) =>
       (dpc = "done" /\ ~has_diff /\ diff_content = <<>>)
  /\ dpc = "done" => (~has_diff <=> diff_content = <<>>)

\* A stream of two different resources was diffed against itself.
C8_Witness ==
  /\ dpc = "done"
  /\ baseline_content = new_content
  /\ Cardinality(IdsIn(baseline_content)) = 2

\* C9: exactly one block for each identity whose text differs between baseline
\* and current and none for the others; the block is "added" when only current
\* has the identity, "removed" when only baseline has it, "changed" (a unified
\* diff) when both have it; blocks are in ascending order of identity. Replicas
\* 3 -> 5 on one Deployment gives one changed block and hasDiff; adding one
\* Service gives one added block and no other.
C9_OneBlockPerDifference ==
  dpc \in {"done", "raised"} =>
    /\ \A id \in IdsIn(baseline_content) \cup IdsIn(new_content) :
         Cardinality(BlocksOf(id)) =
           IF TextIn(baseline_content, id) # TextIn(new_content, id) THEN 1 ELSE 0
    /\ \A k \in DOMAIN diff_content :
         LET b == diff_content[k] IN
           /\ b.identity \in IdsIn(baseline_content) \cup IdsIn(new_content)
           /\ b.type = IF b.identity \notin IdsIn(baseline_content) THEN "added"
                       ELSE IF b.identity \notin IdsIn(new_content) THEN "removed"
                       ELSE "changed"
           /\ b.type = "changed" =>
                /\ HasLine(b, "---", <<"baseline">>) /\ HasLine(b, "+++", <<"current">>)
                /\ \E j \in DOMAIN b.lines : b.lines[j].tag \in {"-", "+"}
    /\ \A k, l \in DOMAIN diff_content :
         k < l => IdRank(diff_content[k].identity) < IdRank(diff_content[l].identity)
    /\ (baseline_content = <<DepR3>> /\ new_content = <<DepR5>>) =>
         /\ has_diff
         /\ Len(diff_content) = 1
         /\ diff_content[1].type = "changed"
         /\ diff_content[1].identity = <<"Deployment", "ns", "app">>
         /\ HasLine(diff_content[1], "-", <<"replicas: 3">>)
         /\ HasLine(diff_content[1], "+", <<"replicas: 5">>)
    /\ (/\ new_content = baseline_content \o <<Svc>>
        /\ DocIdentity(Svc) \notin IdsIn(baseline_content)) =>
         /\ Len(diff_content) = 1
         /\ diff_content[1].type = "added"
         /\ diff_content[1].identity = DocIdentity(Svc)

\* One call produced a removed, a changed and an added block.
C9_Witness ==
  /\ dpc = "done"
  /\ BlockTypes = {"added", "removed", "changed"}

\* The block of one type emitted for an identity shows the text with the tag.
ShownAs(type, id, tag, text) ==
  \E k \in DOMAIN diff_content :
    /\ diff_content[k].type = type
    /\ diff_content[k].identity = id
    /\ HasLine(diff_content[k], tag, text)

Unparseable(stream) == {stream[k] : k \in {j \in DOMAIN stream : stream[j].cls = "bad"}}

\* C11: _diff_manifests returns a result whatever the documents are
\* (unparseable, not a mapping, a mapping with no, null or non-mapping metadata),
\* and an unparseable document is kept under a key made of the hash of its text
\* and diffed as opaque text.
C11_NeverAborts ==
  /\ dpc # "raised"
  /\ dpc = "done" =>
       /\ \A d \in Unparseable(baseline_content) \ Unparseable(new_content) :
            ShownAs("removed", <<"unparseable", Hash(d)>>, "-", <<d.body>>)
       /\ \A d \in Unparseable(new_content) \ Unparseable(baseline_content) :
            ShownAs("added", <<"unparseable", Hash(d)>>, "+", <<d.body>>)

IsReordering(x, y) ==
  /\ Len(x) = Len(y)
  /\ \A d \in RawDocs :
       Cardinality({k \in DOMAIN x : x[k] = d}) = Cardinality({k \in DOMAIN y : y[k] = d})

\* C10: when current is a reordering of the documents of baseline, hasDiff is
\* false, also when two documents of the stream have the same identity.
C10_ReorderingNoDiff ==
  (dpc = "done" /\ IsReordering(baseline_content, new_content)) => ~has_diff

\* ------------------------------------------------- render_diff fan-out
\* Largest number of applications handed to the diff worker pool.
MaxApps == 2

\* DiffResult.error = None
NoError == "None"

\* @dataclass DiffResult (env is the same for every task and left out)
DiffResult(app_name, hd, content, error) ==
  [app_name |-> app_name, has_diff |-> hd, diff_content |-> content, error |-> error]

NoResult == DiffResult(0, FALSE, <<>>, NoError)

\* One submitted future: st is queued, running, finished (the future holds its
\* result) or collected (as_completed has yielded it); caught is the exception
\* that _diff_single_app caught.
NewTask == [st |-> "queued", result |-> NoResult, caught |-> "none"]

\* The manifests a task may find: the current render and the stored baseline.
CurrentStreams == {<<DepR3>>, <<DepR5>>}
BaselineStreams == {<<DepR3>>}

\* What happens inside the try block of _diff_single_app:
\*   found    : the application is in list_apps_for_env(env)
\*   o        : what the render call did (Outcomes)
\*   store    : what backend.exists(ref) did: yes, no, or auth (raised
\*              AWSTokenExpiredError)
\* The value is <<result, exception raised in the try block>>.
TryBlock(app_name, found, o, store, baseline, current) ==
  IF ~found THEN <<DiffResult(app_name, FALSE, <<>>, "App not found"), "none">>
  ELSE IF o \in {"auth", "other"} THEN <<NoResult, o>>
  ELSE IF o = "fail" THEN <<DiffResult(app_name, FALSE, <<>>, FailMsg.text), "none">>
  ELSE IF store = "auth" THEN <<NoResult, "auth">>
  ELSE IF store = "no"
  THEN <<DiffResult(app_name, TRUE, <<"New app (no baseline in S3)">>, NoError), "none">>
  ELSE LET r == DiffManifests(baseline, current)
       IN <<DiffResult(app_name, r.has_diff, r.diff_content, NoError), "none">>

\* _diff_single_app(args) : except Exception as e catches every exception
\* raised in the try block (AWSTokenExpiredError is a subclass of Exception)
\* and returns DiffResult(error=str(e)).
DiffSingleApp(app_name, found, o, store, baseline, current) ==
  LET t == TryBlock(app_name, found, o, store, baseline, current) IN
    IF t[2] = "none"
    THEN [result |-> t[1], caught |-> "none"]
    ELSE [result |-> DiffResult(app_name, FALSE, <<>>, ExcText(t[2])), caught |-> t[2]]

FanInit ==
  /\ workers \in 1..MaxWorkersBound
  /\ \E n \in 1..MaxApps : task = [i \in 1..n |-> NewTask]
  /\ results = <<>>
  /\ op = "running"
  /\ RIdle /\ DIdle /\ EIdle

\* ThreadPoolExecutor(max_workers=workers): an idle worker takes the oldest
\* queued task.
TaskStart(i) ==
  /\ op = "running"
  /\ task[i].st = "queued"
  /\ \A j \in 1..(i - 1) : task[j].st # "queued"
  /\ Cardinality({j \in DOMAIN task : task[j].st = "running"}) < workers
  /\ task' = [task EXCEPT ![i].st = "running"]
  /\ UNCHANGED <<workers, results, op, rvars, dvars, evars>>

\* The worker runs _diff_single_app to its end.
TaskRun(i, found, o, store, baseline, current) ==
  /\ task[i].st = "running"
  /\ LET r == DiffSingleApp(i, found, o, store, baseline, current) IN
       task' = [task EXCEPT ![i] = [st |-> "finished", result |-> r.result,
                                    caught |-> r.caught]]
  /\ UNCHANGED <<workers, results, op, rvars, dvars, evars>>

\* for future in as_completed(futures): result = future.result();
\* results.append(result). The future holds a result, never an exception,
\* since _diff_single_app lets none through.
TaskCollect(i) ==
  /\ op = "running"
  /\ task[i].st = "finished"
  /\ task' = [task EXCEPT ![i].st = "collected"]
  /\ results' = Append(results, task[i].result)
  /\ UNCHANGED <<workers, op, rvars, dvars, evars>>

\* The loop is over and the with block is left: the diff goes on to its report.
FanReturn ==
  /\ op = "running"
  /\ \A j \in DOMAIN task : task[j].st = "collected"
  /\ op' = "completed"
  /\ UNCHANGED <<workers, task, results, rvars, dvars, evars>>

StoreOutcomes == {"yes", "no", "auth"}

FanNext ==
  \/ \E i \in DOMAIN task : TaskStart(i)
  \/ \E i \in DOMAIN task, found \in BOOLEAN, o \in Outcomes, store \in StoreOutcomes,
        baseline \in BaselineStreams, current \in CurrentStreams :
       TaskRun(i, found, o, store, baseline, current)
  \/ \E i \in DOMAIN task : TaskCollect(i)
  \/ FanReturn

SpecFan == FanInit /\ [][FanNext]_vars

\* --------------------------------------------- render_diff fan-out: claims
AuthRaisedIn(i) == task[i].caught = "auth"

\* C7: an authentication-token expiry raised while one application is diffed
\* goes past the worker pool and ends the whole diff operation; it is not
\* recorded as that application's error while the others go on.
C7_AuthExpiryEndsDiff ==
  /\ op = "completed" => \A i \in DOMAIN task : ~AuthRaisedIn(i)
  /\ \A k \in DOMAIN results :
       ~AuthRaisedIn(results[k].app_name)

\* ------------------------------------------------------ chart resolution
\* The concurrent sibling workers, each in one render_helm_chart_to_string call.
Resolvers == {"w1", "w2"}

OCI_REGISTRY_INDICATORS ==
  {"ghcr.io", "gcr.io", "azurecr.io", "dkr.ecr.", "pkg.dev", "docker.io",
   "registry.io", "quay.io"}

TRADITIONAL_REPO_INDICATORS ==
  {"github.io", "charts.", "/charts", "/helm", "hub.jupyter.org", "tigera.io"}

\* The indicators that are substrings of repo_url.lower().
IndicatorsIn(repo_url) ==
  CASE repo_url = "oci://ghcr.io/org" -> {"ghcr.io", "gcr.io"}
    [] repo_url = "oci://charts.example.com" -> {"charts."}
    [] repo_url = "https://charts.bitnami.com/bitnami" -> {"charts."}
    [] repo_url = "quay.io/charts" -> {"quay.io", "/charts"}
    [] repo_url = "GHCR.IO/org" -> {"ghcr.io", "gcr.io"}
    [] repo_url = "https://example.com/repo" -> {}
    [] OTHER -> {}

\* repo_url.lower().startswith("oci://")
HasOciScheme(repo_url) == repo_url \in {"oci://ghcr.io/org", "oci://charts.example.com"}

\* Mutant of IsOciRegistry: the traditional-repository indicators are not looked at.
IsOciRegistryNoTraditional(repo_url) ==
  HasOciScheme(repo_url) \/ IndicatorsIn(repo_url) \cap OCI_REGISTRY_INDICATORS # {}

\* is_oci_registry(repo_url)
IsOciRegistry(repo_url) ==
  IF HasOciScheme(repo_url) THEN TRUE
  ELSE IF IndicatorsIn(repo_url) \cap TRADITIONAL_REPO_INDICATORS # {} THEN FALSE
  ELSE IndicatorsIn(repo_url) \cap OCI_REGISTRY_INDICATORS # {}

\* ArgoAppConfig, with what get_local_chart_version finds on disk ("none" for an
\* external chart)
App(chart_name, chart_version, chart_repo, is_local_chart, on_disk) ==
  [chart_name |-> chart_name, chart_version |-> chart_version,
   chart_repo |-> chart_repo, is_local_chart |-> is_local_chart, on_disk |-> on_disk]

ResolveApps ==
  {App("nginx", "1.0", "oci://ghcr.io/org", FALSE, "none"),
   App("nginx", "1.0", "https://charts.bitnami.com/bitnami", FALSE, "none"),
   App("redis", "2.0", "quay.io/charts", FALSE, "none"),
   App("redis", "2.0", "https://example.com/repo", FALSE, "none"),
   App("nginx", "1.0", "oci://charts.example.com", FALSE, "none"),
   App("web", "1.2", "GHCR.IO/org", TRUE, "1.2"),
   App("web", "1.1", "GHCR.IO/org", TRUE, "1.2"),
   App("web", "1.1", "https://charts.bitnami.com/bitnami", TRUE, "1.2")}

\* ChartRef.key : f"_chart_cache/{chart_name}/{version}.tgz"
ChartKey(chart_name, version) == <<"_chart_cache", chart_name, version, "tgz">>

\* The archive made of a pulled chart directory (tar.add(chart_dir, arcname=chart_name)).
ArchiveOf(app) == [chart |-> app.chart_name, version |-> app.chart_version]

\* The names tempfile can give a directory; the user-level Helm state is not one.
TmpNames == <<"tmp1", "tmp2", "tmp3", "tmp4">>
UserHelmState == "~/.config/helm"

\* Mutant of MkDTemp: one fixed directory name.
MkDTempFixed(live) == TmpNames[1]

\* tempfile.TemporaryDirectory() : a directory that does not exist yet.
MkDTemp(live) ==
  TmpNames[CHOOSE k \in DOMAIN TmpNames :
             /\ TmpNames[k] \notin live
             /\ \A j \in 1..(k - 1) : TmpNames[j] \in live]

\* temp_repo_name: str = "rita-temp-repo"
TempRepoName(w) == "rita-temp-repo"

NewResolver(app) ==
  [app |-> app,
   pc |-> "start",        \* start, prepare, cache_read, pull, pulling,
                          \* upload_check, upload_put, exit, done
   path |-> "none",       \* local, external, versioned
   work_dir |-> "none",   \* temp_dir of render_helm_chart_to_string
   helm_config |-> "none",\* HELM_REPOSITORY_CONFIG / _CACHE directory of a pull
   repo_name |-> "none",  \* name given to helm repo add
   protocol |-> "none",   \* oci, trad
   ops |-> <<>>,          \* the external operations performed, in order
   cache_read |-> "none", \* hit, miss, failed, auth
   pulled |-> "none",     \* ok, failed
   uploaded |-> "none",   \* put, present, failed
   result |-> "none"]     \* ok, fail, auth (AWSTokenExpiredError raised)

\* The cache at the start: empty, or holding one chart from an earlier run.
InitialCaches == {<<>>, ChartKey("redis", "2.0") :> [chart |-> "redis", version |-> "2.0"]}

ResolveInit ==
  /\ resolver \in [Resolvers -> {NewResolver(a) : a \in ResolveApps}]
  /\ chart_cache \in InitialCaches
  /\ tmp_dirs = {}
  /\ cache_configured \in BOOLEAN
  /\ RIdle /\ DIdle /\ FIdle /\ QIdle /\ TIdle /\ SIdle

Others == <<rvars, dvars, fvars, qvars, tvars, svars>>

\* with tempfile.TemporaryDirectory() as temp_dir:
EnterRender(w) ==
  /\ resolver[w].pc = "start"
  /\ LET d == MkDTemp(tmp_dirs) IN
       /\ resolver' = [resolver EXCEPT ![w].pc = "prepare", ![w].work_dir = d]
       /\ tmp_dirs' = tmp_dirs \cup {d}
  /\ UNCHANGED <<chart_cache, cache_configured, Others>>

\* Mutant of VersionMatches: the on-disk version is not compared.
VersionMatchesNever(app) == FALSE

\* local_version == app.chart_version
VersionMatches(app) == app.on_disk = app.chart_version

\* cache = get_chart_cache(config) if use_chart_cache else None; if cache: ...
AfterDispatch == IF cache_configured THEN "cache_read" ELSE "pull"

\* What _prepare_local_chart finds: the dependencies are packaged in the chart,
\* or helm dependency build is run and succeeds or fails.
Dependencies == {"packaged", "built", "build_failed"}

\* The operations of _prepare_local_chart.
LocalOps(dep) ==
  <<"copytree", "copy_file_dependencies">>
  \o (IF dep = "packaged" THEN <<>> ELSE <<"dependency_build">>)

\* prepare_chart_for_rendering, up to the first external operation; for a local
\* chart at the on-disk version, all of _prepare_local_chart.
Prepare(w, dep) ==
  /\ resolver[w].pc = "prepare"
  /\ LET app == resolver[w].app IN
       IF ~app.is_local_chart
       THEN resolver' = [resolver EXCEPT ![w].path = "external", ![w].pc = AfterDispatch]
       ELSE IF VersionMatches(app)
       THEN resolver' = [resolver EXCEPT
              ![w].path = "local",
              ![w].ops = @ \o LocalOps(dep),
              ![w].result = IF dep = "build_failed" THEN "fail" ELSE "ok",
              ![w].pc = "exit"]
       ELSE resolver' = [resolver EXCEPT ![w].path = "versioned", ![w].pc = AfterDispatch]
  /\ UNCHANGED <<chart_cache, tmp_dirs, cache_configured, Others>>

KeyOf(w) == ChartKey(resolver[w].app.chart_name, resolver[w].app.chart_version)

\* What the S3 calls of download_cached_chart may do: normal (the answer the
\* cache state gives), check_error (chart_exists raises), download_error
\* (download_chart fails or raises), unreadable (tarfile raises), no_dir (nothing
\* extracted), auth (an exception _is_token_expired_error recognises).
CacheReadOutcomes == {"normal", "check_error", "download_error", "unreadable", "no_dir", "auth"}

\* download_cached_chart and the test "if success and chart_path" after it.
CacheRead(w, o) ==
  /\ resolver[w].pc = "cache_read"
  /\ o \in {"download_error", "unreadable", "no_dir"} => KeyOf(w) \in DOMAIN chart_cache
  /\ resolver' = [resolver EXCEPT
       ![w].ops = @ \o <<"cache_lookup">>,
       ![w].cache_read = CASE o = "auth" -> "auth"
                           [] o = "normal" /\ KeyOf(w) \in DOMAIN chart_cache -> "hit"
                           [] o = "normal" -> "miss"
                           [] OTHER -> "failed",
       ![w].result = CASE o = "auth" -> "auth"
                       [] o = "normal" /\ KeyOf(w) \in DOMAIN chart_cache -> "ok"
                       [] OTHER -> @,
       ![w].pc = CASE o = "auth" -> "exit"
                   [] o = "normal" /\ KeyOf(w) \in DOMAIN chart_cache -> "exit"
                   [] OTHER -> "pull"]
  /\ UNCHANGED <<chart_cache, tmp_dirs, cache_configured, Others>>

\* The pull of _prepare_external_chart goes by is_oci_registry(app.chart_repo),
\* that of _prepare_versioned_chart is pull_oci_chart.
ProtocolOf(path, app) ==
  IF path = "versioned" THEN "oci"
  ELSE IF IsOciRegistry(app.chart_repo) THEN "oci" ELSE "trad"

\* The pull begins. pull_oci_chart: ensure_registry_auth. pull_traditional_helm_chart:
\* a TemporaryDirectory for HELM_REPOSITORY_CONFIG and HELM_REPOSITORY_CACHE, and
\* helm repo add.
PullStart(w) ==
  /\ resolver[w].pc = "pull"
  /\ LET proto == ProtocolOf(resolver[w].path, resolver[w].app)
         d == MkDTemp(tmp_dirs)
     IN IF proto = "oci"
        THEN /\ resolver' = [resolver EXCEPT
                  ![w].protocol = proto, ![w].pc = "pulling",
                  ![w].ops = @ \o <<"registry_login">>]
             /\ tmp_dirs' = tmp_dirs
        ELSE /\ resolver' = [resolver EXCEPT
                  ![w].protocol = proto, ![w].pc = "pulling",
                  ![w].helm_config = d, ![w].repo_name = TempRepoName(w),
                  ![w].ops = @ \o <<"repo_add">>]
             /\ tmp_dirs' = tmp_dirs \cup {d}
  /\ UNCHANGED <<chart_cache, cache_configured, Others>>

\* _cache_chart_if_possible: if cache: ...
AfterPull == IF cache_configured THEN "upload_check" ELSE "exit"

\* The pull ends (helm pull --untar, _find_extracted_chart) and the temporary
\* Helm configuration directory, if any, is removed.
PullEnd(w, ok) ==
  /\ resolver[w].pc = "pulling"
  /\ resolver' = [resolver EXCEPT
       ![w].ops = @ \o <<IF resolver[w].protocol = "oci" THEN "pull_oci" ELSE "pull_repo">>,
       ![w].helm_config = "none",
       ![w].pulled = IF ok THEN "ok" ELSE "failed",
       ![w].result = IF ok /\ AfterPull = "exit" THEN "ok" ELSE IF ok THEN @ ELSE "fail",
       ![w].pc = IF ok THEN AfterPull ELSE "exit"]
  /\ tmp_dirs' = tmp_dirs \ {resolver[w].helm_config}
  /\ UNCHANGED <<chart_cache, cache_configured, Others>>

\* Mutant of AfterUploadError: a failed upload fails the resolution.
AfterUploadErrorFails(result) == "fail"

\* contextlib.suppress(Exception) around upload_chart_to_cache, and the except
\* Exception inside it: the resolution goes on to return True.
AfterUploadError(result) == "ok"

\* upload_chart_to_cache: if cache.chart_exists(ref): return True
\* (error: chart_exists raises, which _cache_chart_if_possible suppresses).
UploadCheck(w, o) ==
  /\ resolver[w].pc = "upload_check"
  /\ resolver' = [resolver EXCEPT
       ![w].ops = @ \o <<"cache_exists">>,
       ![w].uploaded = CASE o = "error" -> "failed"
                         [] KeyOf(w) \in DOMAIN chart_cache -> "present"
                         [] OTHER -> @,
       ![w].result = CASE o = "error" -> AfterUploadError(@)
                       [] KeyOf(w) \in DOMAIN chart_cache -> "ok"
                       [] OTHER -> @,
       ![w].pc = IF o = "error" \/ KeyOf(w) \in DOMAIN chart_cache
                 THEN "exit" ELSE "upload_put"]
  /\ UNCHANGED <<chart_cache, tmp_dirs, cache_configured, Others>>

\* Mutant of PutObject: an object that exists is kept and the new one is stored
\* beside it.
PutObjectBeside(cache, key, archive) ==
  IF key \in DOMAIN cache THEN (Append(key, "copy") :> archive) @@ cache
  ELSE (key :> archive) @@ cache

\* S3 upload_file: the object under the key is created or replaced.
PutObject(cache, key, archive) ==
  (key :> archive) @@ [k \in DOMAIN cache \ {key} |-> cache[k]]

\* upload_chart_to_cache: the archive is made and cache.upload_chart puts it
\* (ok), or one of the two raises and False is returned.
UploadPut(w, ok) ==
  /\ resolver[w].pc = "upload_put"
  /\ resolver' = [resolver EXCEPT
       ![w].ops = @ \o <<"cache_upload">>,
       ![w].uploaded = IF ok THEN "put" ELSE "failed",
       ![w].result = IF ok THEN "ok" ELSE AfterUploadError(@),
       ![w].pc = "exit"]
  /\ chart_cache' = IF ok THEN PutObject(chart_cache, KeyOf(w), ArchiveOf(resolver[w].app))
                    ELSE chart_cache
  /\ UNCHANGED <<tmp_dirs, cache_configured, Others>>

\* The with block of render_helm_chart_to_string is left (after helm template,
\* or at once when the resolution failed or raised): temp_dir is removed.
ExitRender(w) ==
  /\ resolver[w].pc = "exit"
  /\ resolver' = [resolver EXCEPT ![w].pc = "done"]
  /\ tmp_dirs' = tmp_dirs \ {resolver[w].work_dir}
  /\ UNCHANGED <<chart_cache, cache_configured, Others>>

ResolveNext ==
  \/ \E w \in Resolvers : EnterRender(w)
  \/ \E w \in Resolvers, dep \in Dependencies : Prepare(w, dep)
  \/ \E w \in Resolvers, o \in CacheReadOutcomes : CacheRead(w, o)
  \/ \E w \in Resolvers : PullStart(w)
  \/ \E w \in Resolvers, ok \in BOOLEAN : PullEnd(w, ok)
  \/ \E w \in Resolvers, o \in {"normal", "error"} : UploadCheck(w, o)
  \/ \E w \in Resolvers, ok \in BOOLEAN : UploadPut(w, ok)
  \/ \E w \in Resolvers : ExitRender(w)

SpecResolve == ResolveInit /\ [][ResolveNext]_vars

\* ---------------------------------------------- chart resolution: claims
\* The worker is inside the with block of its render call.
InRender(w) == resolver[w].pc \notin {"start", "done"}

\* The worker is inside a traditional-repository pull.
InRepoPull(w) == resolver[w].pc = "pulling" /\ resolver[w].protocol = "trad"

DirsOf(w) == {resolver[w].work_dir, resolver[w].helm_config} \ {"none"}

\* The scratch directories of concurrent calls are distinct and none is the
\* user-level Helm state.
IsolatedDirs ==
  /\ \A w \in Resolvers :
       /\ InRender(w) => resolver[w].work_dir \in tmp_dirs
       /\ InRepoPull(w) =>
            /\ resolver[w].helm_config \in tmp_dirs
            /\ resolver[w].helm_config # resolver[w].work_dir
       /\ UserHelmState \notin DirsOf(w)
  /\ \A w1, w2 \in Resolvers :
       (w1 # w2 /\ InRender(w1) /\ InRender(w2)) => DirsOf(w1) \cap DirsOf(w2) = {}

\* C12 (as stated): concurrent render and pull calls have distinct scratch and
\* Helm repository-config directories, never the user-level Helm state, and each
\* traditional pull registers its repository under a name unique to that pull.
C12_IsolatedUniquelyNamed ==
  /\ IsolatedDirs
  /\ \A w1, w2 \in Resolvers :
       (w1 # w2 /\ InRepoPull(w1) /\ InRepoPull(w2)) =>
         resolver[w1].repo_name # resolver[w2].repo_name

\* C12 (amended): the directories are as stated; every traditional pull
\* registers its repository under the one name rita-temp-repo, in the repository
\* configuration of its own directory.
C12_IsolatedFixedName ==
  /\ IsolatedDirs
  /\ \A w \in Resolvers : InRepoPull(w) => resolver[w].repo_name = "rita-temp-repo"

\* Two traditional pulls are in progress at once.
C12_Witness ==
  \A w \in Resolvers : InRepoPull(w)

NoFault(w) ==
  /\ resolver[w].cache_read \in {"hit", "miss"}
  /\ resolver[w].pulled # "failed"
  /\ resolver[w].uploaded # "failed"

\* C13: two workers resolve the same {chartName, version} from a cache without
\* the chart: in every interleaving both succeed and the cache ends with one
\* archive under _chart_cache/<chartName>/<version>.tgz, as if one worker alone
\* had uploaded; both may have performed the upload.
C13_DuplicateUploadBenign ==
  \A w1, w2 \in Resolvers :
    (/\ w1 # w2
     /\ resolver[w1].pc = "done" /\ resolver[w2].pc = "done"
     /\ KeyOf(w1) = KeyOf(w2)
     /\ NoFault(w1) /\ NoFault(w2)
     /\ resolver[w1].cache_read = "miss") =>
      /\ resolver[w1].result = "ok" /\ resolver[w2].result = "ok"
      /\ KeyOf(w1) \in DOMAIN chart_cache
      /\ chart_cache[KeyOf(w1)] = ArchiveOf(resolver[w1].app)
      /\ \E c \in InitialCaches :
           /\ KeyOf(w1) \notin DOMAIN c
           /\ DOMAIN chart_cache = DOMAIN c \cup {KeyOf(w1)}
           /\ \A k \in DOMAIN c : chart_cache[k] = c[k]

\* Both workers missed the cache and both uploaded.
C13_Witness ==
  /\ \A w \in Resolvers :
       /\ resolver[w].pc = "done"
       /\ resolver[w].cache_read = "miss"
       /\ resolver[w].uploaded = "put"
  /\ KeyOf("w1") = KeyOf("w2")

OpsOf(w) == {resolver[w].ops[k] : k \in DOMAIN resolver[w].ops}

CacheOps == {"cache_lookup", "cache_exists", "cache_upload"}
PullOps == {"registry_login", "repo_add", "pull_oci", "pull_repo"}

\* C14: a local chart whose Chart.yaml version is the requested one is resolved
\* by the copy into the work directory alone: no cache lookup, no registry
\* login, no registry or repository pull, no cache upload.
C14_LocalChartNeverPulled ==
  \A w \in Resolvers :
    (resolver[w].app.is_local_chart
     /\ resolver[w].app.on_disk = resolver[w].app.chart_version) =>
      /\ OpsOf(w) \cap (CacheOps \cup PullOps) = {}
      /\ resolver[w].pc \in {"exit", "done"} =>
           /\ "copytree" \in OpsOf(w)
           /\ resolver[w].work_dir # "none"
           /\ resolver[w].result \in {"ok", "fail"}

\* A local chart at its on-disk version was resolved while the cache was
\* configured and the other worker pulled.
C14_Witness ==
  /\ cache_configured
  /\ \E w1, w2 \in Resolvers :
       /\ resolver[w1].pc = "done" /\ resolver[w1].path = "local"
       /\ resolver[w1].result = "ok"
       /\ resolver[w2].pulled = "ok"

Resolved(w) == resolver[w].pc \in {"exit", "done"}

\* C15: a chart-cache failure other than a token expiry never fails the
\* resolution: a failed cache read falls back to the pull, a cache hit is used
\* with no pull and no upload, and after a successful pull the resolution
\* succeeds whether or not the upload does.
C15_CacheFailuresNeverBlock ==
  \A w \in Resolvers :
    /\ (resolver[w].cache_read = "failed" /\ Resolved(w)) =>
         (resolver[w].pulled # "none" /\ PullOps \cap OpsOf(w) # {})
    /\ resolver[w].cache_read = "hit" =>
         /\ resolver[w].result = "ok"
         /\ OpsOf(w) \cap (PullOps \cup {"cache_exists", "cache_upload"}) = {}
    /\ (resolver[w].pulled = "ok" /\ Resolved(w)) => resolver[w].result = "ok"
    /\ (Resolved(w) /\ resolver[w].result # "ok") =>
         \/ resolver[w].cache_read = "auth"
         \/ resolver[w].pulled = "failed"
         \/ resolver[w].path = "local"

\* A resolution succeeded after a failed cache read and a failed upload.
C15_Witness ==
  \E w \in Resolvers :
    /\ resolver[w].pc = "done"
    /\ resolver[w].cache_read = "failed"
    /\ resolver[w].uploaded = "failed"
    /\ resolver[w].result = "ok"

\* The classification of a repository URL the claim states: OCI when the URL
\* starts with oci://, or has an OCI registry fragment and no
\* traditional-repository fragment.
StatedProtocol(repo_url) ==
  IF \/ HasOciScheme(repo_url)
     \/ /\ IndicatorsIn(repo_url) \cap OCI_REGISTRY_INDICATORS # {}
        /\ IndicatorsIn(repo_url) \cap TRADITIONAL_REPO_INDICATORS = {}
  THEN "oci" ELSE "trad"

\* C16 (as stated): for every resolution that is not a local copy, on a cache
\* miss the pull protocol is the one the classification of the repository URL
\* gives.
C16_ProtocolByClassification ==
  \A w \in Resolvers :
    (resolver[w].path \in {"external", "versioned"} /\ resolver[w].protocol # "none") =>
      resolver[w].protocol = StatedProtocol(resolver[w].app.chart_repo)

\* C16 (amended): for an external chart the pull protocol is the one the
\* classification gives; for a local chart pinned at another version than the
\* on-disk one the pull is an OCI pull whatever the URL.
C16_ProtocolByPath ==
  \A w \in Resolvers :
    resolver[w].protocol # "none" =>
      /\ resolver[w].path \in {"external", "versioned"}
      /\ resolver[w].path = "external" =>
           resolver[w].protocol = StatedProtocol(resolver[w].app.chart_repo)
      /\ resolver[w].path = "versioned" => resolver[w].protocol = "oci"

\* A pinned local chart with a traditional-repository URL was pulled, and an
\* external chart whose URL has fragments of both kinds.
C16_Witness ==
  \E w1, w2 \in Resolvers :
    /\ resolver[w1].path = "versioned" /\ resolver[w1].pulled = "ok"
    /\ StatedProtocol(resolver[w1].app.chart_repo) = "trad"
    /\ resolver[w2].path = "external" /\ resolver[w2].pulled = "ok"
    /\ resolver[w2].app.chart_repo = "quay.io/charts"

\* --------------------------------------------------- descriptor parsers
\* Largest number of entries in spec.sources of an Application.
MaxSources == 3
\* Largest number of elements of one list generator.
MaxElements == 2
\* Largest number of generators of an ApplicationSet.
MaxGenerators == 2
\* Largest number of documents in a text of mixed kinds.
MaxTextDocs == 2

\* A key that a mapping does not have. An optional mapping is a sequence of
\* length at most one, and None is the empty one.
Absent == "absent"
NoDescriptor == <<>>

\* dict.get(key, default)
Get(value, default) == IF value = Absent THEN default ELSE value

\* One entry of spec.sources: chart and path are Absent when the entry has no
\* such key; kustomize tells whether _is_kustomize_directory(path) finds a
\* kustomization file; ref is the value of the ref key.
Source(chart, path, kustomize, ref) ==
  [chart |-> chart, path |-> path, kustomize |-> kustomize, ref |-> ref]

HelmA == Source("chart-a", Absent, FALSE, Absent)
HelmB == Source("chart-b", Absent, FALSE, Absent)
KustA == Source(Absent, "overlays/a", TRUE, Absent)
KustB == Source(Absent, "overlays/b", TRUE, Absent)
PlainA == Source(Absent, "manifests/a", FALSE, Absent)
PlainB == Source(Absent, "manifests/b", FALSE, Absent)
ValuesRef == Source(Absent, "values", FALSE, "values")
RefOnly == Source(Absent, Absent, FALSE, "values")
EmptyPath == Source(Absent, "", FALSE, Absent)

SourceEntries ==
  {HelmA, HelmB, KustA, KustB, PlainA, PlainB, ValuesRef, RefOnly, EmptyPath}
SourceLists == UNION {[1..n -> SourceEntries] : n \in 0..MaxSources}

\* One element of a list generator
Element(name, origin, version, valuesFile) ==
  [name |-> name, origin |-> origin, version |-> version, valuesFile |-> valuesFile]

ElemWeb == Element("web", "nginx", "1.0", "web.yaml")
ElemBare == Element("bare", Absent, Absent, Absent)

Elements == {ElemWeb, ElemBare}
ElementLists == UNION {[1..n -> Elements] : n \in 0..MaxElements}

\* One entry of spec.generators: a list generator with its elements, or a
\* generator of another type, which has no list key.
Generator(type, elements) == [type |-> type, elements |-> elements]

Generators == {Generator("list", l) : l \in ElementLists} \cup {Generator("git", <<>>)}
GeneratorLists == UNION {[1..n -> Generators] : n \in 0..MaxGenerators}

ArgoApi == "argoproj.io/v1alpha1"
ApiVersions == {ArgoApi, "example.com/v1", "apps/v1"}

\* "argoproj.io" in api_version
InArgoGroup(apiVersion) == apiVersion = ArgoApi

\* One YAML document that is a mapping. An Application has spec.source and
\* spec.sources, an ApplicationSet spec.generators, the namespace of
\* spec.template.spec.destination and the valuesObject of the template's chart
\* source.
YamlDoc(kind, apiVersion, name, source, sources, generators, dest_namespace, valuesObject) ==
  [kind |-> kind, apiVersion |-> apiVersion, name |-> name, source |-> source,
   sources |-> sources, generators |-> generators,
   dest_namespace |-> dest_namespace, valuesObject |-> valuesObject]

AppDoc(kind, apiVersion, source, sources) ==
  YamlDoc(kind, apiVersion, "app", source, sources, <<>>, "prod", Absent)

AppSetDoc(apiVersion, generators, dest_namespace, valuesObject) ==
  YamlDoc("ApplicationSet", apiVersion, "set", <<>>, <<>>, generators,
          dest_namespace, valuesObject)

\* YAML text: the documents that load, and whether text that does not parse
\* follows them (yaml.safe_load_all yields the documents one by one and raises
\* when it reaches that text).
Text(docs, malformed) == [docs |-> docs, malformed |-> malformed]

\* Applications with every list of sources, and with the single-source form
SourceTexts ==
  {Text(<<AppDoc("Application", ArgoApi, <<>>, l)>>, FALSE) : l \in SourceLists}
  \cup {Text(<<AppDoc("Application", ArgoApi, <<s>>, <<>>)>>, FALSE) : s \in SourceEntries}

\* ApplicationSets with every list of generators
SetTexts ==
  {Text(<<AppSetDoc(ArgoApi, g, t[1], t[2])>>, FALSE) :
     g \in GeneratorLists, t \in {<<"prod", "overlay">>, <<Absent, Absent>>}}

\* Documents of every kind and API group, and the texts made of them
MixedDocs ==
  {AppDoc(k, a, <<>>, <<HelmA>>) : k \in {"Application", "Deployment"}, a \in ApiVersions}
  \cup {AppSetDoc(a, <<Generator("list", <<ElemWeb>>)>>, "prod", "overlay") : a \in ApiVersions}

MixedTexts ==
  {Text(d, m) : d \in UNION {[1..n -> MixedDocs] : n \in 0..MaxTextDocs}, m \in BOOLEAN}

Texts == SourceTexts \cup SetTexts \cup MixedTexts

\* spec.get("sources", []); if source and not sources: sources = [source]
SourcesOf(doc) ==
  IF doc.source # <<>> /\ doc.sources = <<>> THEN doc.source ELSE doc.sources

\* The first document of the text with the kind; None when there is none, and
\* when the text stops parsing before one is found.
FirstOfKind(text, kind) ==
  LET hits == {k \in DOMAIN text.docs : text.docs[k].kind = kind} IN
    IF hits = {} THEN NoDescriptor
    ELSE <<text.docs[CHOOSE k \in hits : \A j \in hits : k <= j]>>

\* _find_application_document(app_path)
FindApplicationDocument(text) == FirstOfKind(text, "Application")

\* _find_applicationset_document(content)
FindApplicationSetDocument(text) == FirstOfKind(text, "ApplicationSet")

\* _find_chart_source(spec): the first source with a chart key, else the first
\* with a path key, else None.
FindChartSource(doc) ==
  LET sources == SourcesOf(doc)
      charts == {k \in DOMAIN sources : sources[k].chart # Absent}
      paths == {k \in DOMAIN sources : sources[k].path # Absent}
      Least(S) == CHOOSE k \in S : \A j \in S : k <= j
  IN IF charts # {} THEN <<sources[Least(charts)]>>
     ELSE IF paths # {} THEN <<sources[Least(paths)]>>
     ELSE <<>>

\* The loop of parse_argocd_application over the sources; acc holds helm_source,
\* kustomize_source_path and plain_manifests_path.
RECURSIVE ScanSources(_, _)
ScanSources(sources, acc) ==
  IF sources = <<>> THEN acc
  ELSE LET src == Head(sources)
           a1 == IF src.chart # Absent /\ acc.helm_source = <<>>
                 THEN [acc EXCEPT !.helm_source = <<src>>] ELSE acc
           a2 == IF src.path # Absent /\ src.ref = Absent /\ src.path # ""
                 THEN IF src.kustomize
                      THEN [a1 EXCEPT !.kustomize_source_path = src.path]
                      ELSE [a1 EXCEPT !.plain_manifests_path = src.path]
                 ELSE a1
       IN ScanSources(Tail(sources), a2)

NoSources ==
  [helm_source |-> <<>>, kustomize_source_path |-> Absent, plain_manifests_path |-> Absent]

\* ArgoAppConfig
Descriptor(name, chart_name, chart_version, namespace, release_name, values_object, is_kustomize, kustomize_path, plain_manifests_path) ==
  [name |-> name, chart_name |-> chart_name, chart_version |-> chart_version,
   namespace |-> namespace, release_name |-> release_name,
   values_object |-> values_object, is_kustomize |-> is_kustomize,
   kustomize_path |-> kustomize_path, plain_manifests_path |-> plain_manifests_path]

\* parse_argocd_application(app_path, chart_path_resolver), no chart of the
\* sources being a local one
ParseArgoApplication(text) ==
  LET found == FindApplicationDocument(text) IN
    IF found = <<>> THEN NoDescriptor
    ELSE LET doc == found[1] IN
      IF FindChartSource(doc) = <<>> THEN NoDescriptor
      ELSE LET acc == ScanSources(SourcesOf(doc), NoSources) IN
        IF acc.helm_source = <<>> /\ acc.kustomize_source_path # Absent
        THEN <<Descriptor(doc.name, "", "", Get(doc.dest_namespace, "default"),
                          doc.name, Absent, TRUE, acc.kustomize_source_path, Absent)>>
        ELSE <<Descriptor(doc.name,
                          IF acc.helm_source # <<>> THEN acc.helm_source[1].chart ELSE "",
                          "latest", Get(doc.dest_namespace, "default"), doc.name, Absent,
                          acc.kustomize_source_path # Absent,
                          acc.kustomize_source_path, acc.plain_manifests_path)>>

\* ArgoAppSetGeneratorElement(name=elem.get("name", ""), ...)
GeneratorElement(elem) ==
  [name |-> Get(elem.name, ""), chart_name |-> Get(elem.origin, ""),
   chart_version |-> Get(elem.version, ""), values_file |-> Get(elem.valuesFile, ""),
   extra_fields |-> elem]

\* Only the elements of the last list generator
RECURSIVE GeneratorElementsLastList(_)
GeneratorElementsLastList(generators) ==
  IF generators = <<>> THEN <<>>
  ELSE LET rest == GeneratorElementsLastList(Tail(generators)) IN
    IF rest # <<>> \/ Head(generators).type # "list" THEN rest
    ELSE [k \in DOMAIN Head(generators).elements |->
            GeneratorElement(Head(generators).elements[k])]

\* for gen in generators: if "list" in gen: for elem in elements: append
RECURSIVE GeneratorElements(_)
GeneratorElements(generators) ==
  IF generators = <<>> THEN <<>>
  ELSE LET gen == Head(generators) IN
    (IF gen.type = "list"
     THEN [k \in DOMAIN gen.elements |-> GeneratorElement(gen.elements[k])]
     ELSE <<>>) \o GeneratorElements(Tail(generators))

\* ArgoAppSetConfig, as _parse_applicationset_from_doc and the body of
\* parse_applicationset_from_manifest build it from the document
ParseApplicationSetFromDoc(doc) ==
  [name |-> doc.name,
   destination_namespace |-> Get(doc.dest_namespace, "default"),
   values_overlay |-> doc.valuesObject,
   generator_elements |-> GeneratorElements(doc.generators)]

\* parse_applicationset_from_manifest(manifest_content, source_file)
ParseApplicationSetFromManifest(text) ==
  LET found == FindApplicationSetDocument(text) IN
    IF found = <<>> THEN NoDescriptor ELSE <<ParseApplicationSetFromDoc(found[1])>>

\* ArgoAppSetConfig.to_app_configs(chart_path_resolver, values_root)
ToAppConfigs(config) ==
  [k \in DOMAIN config.generator_elements |->
     LET elem == config.generator_elements[k]
         origin == Get(elem.extra_fields.origin, elem.chart_name)
     IN Descriptor(elem.name, origin, elem.chart_version, config.destination_namespace,
                   elem.name, config.values_overlay, FALSE, Absent, Absent)]

\* _parse_application_from_doc(doc, source_file, chart_path_resolver)
ParseApplicationFromDoc(doc) ==
  LET chart_source == FindChartSource(doc) IN
    IF chart_source = <<>> THEN NoDescriptor
    ELSE <<Descriptor(doc.name, Get(chart_source[1].chart, ""), "latest",
                      Get(doc.dest_namespace, "default"), doc.name, Absent,
                      FALSE, Absent, Absent)>>

\* The applications that the loop of parse_argocd_resources_from_manifest appends
RECURSIVE ApplicationsIn(_)
ApplicationsIn(docs) ==
  IF docs = <<>> THEN <<>>
  ELSE (IF Head(docs).kind = "Application" /\ InArgoGroup(Head(docs).apiVersion)
        THEN ParseApplicationFromDoc(Head(docs)) ELSE <<>>)
       \o ApplicationsIn(Tail(docs))

\* The application sets that the loop appends
RECURSIVE ApplicationSetsIn(_)
ApplicationSetsIn(docs) ==
  IF docs = <<>> THEN <<>>
  ELSE (IF Head(docs).kind = "ApplicationSet" /\ InArgoGroup(Head(docs).apiVersion)
        THEN <<ParseApplicationSetFromDoc(Head(docs))>> ELSE <<>>)
       \o ApplicationSetsIn(Tail(docs))

\* parse_argocd_resources_from_manifest(manifest_content, source_file, resolver):
\* the whole text is loaded first, and a text that does not parse gives [], [].
ParseResources(text) ==
  IF text.malformed THEN <<<<>>, <<>>>>
  ELSE <<ApplicationsIn(text.docs), ApplicationSetsIn(text.docs)>>

ParseInit ==
  /\ pin \in {<<t>> : t \in Texts}
  /\ pout = <<>>
  /\ ppc = "called"
  /\ RIdle /\ DIdle /\ FIdle /\ PIdle /\ TIdle /\ SIdle

NotParsers == <<rvars, dvars, fvars, pvars, tvars, svars>>

ParseArgoApplicationCall ==
  /\ ppc = "called"
  /\ pout' = ParseArgoApplication(pin[1])
  /\ ppc' = "application"
  /\ UNCHANGED <<pin, NotParsers>>

ParseApplicationSetCall ==
  /\ ppc = "called"
  /\ pout' = ParseApplicationSetFromManifest(pin[1])
  /\ ppc' = "applicationset"
  /\ UNCHANGED <<pin, NotParsers>>

ToAppConfigsCall ==
  /\ ppc = "applicationset"
  /\ pout # <<>>
  /\ pout' = ToAppConfigs(pout[1])
  /\ ppc' = "expanded"
  /\ UNCHANGED <<pin, NotParsers>>

ParseResourcesCall ==
  /\ ppc = "called"
  /\ pout' = ParseResources(pin[1])
  /\ ppc' = "resources"
  /\ UNCHANGED <<pin, NotParsers>>

ParseNext ==
  \/ ParseArgoApplicationCall
  \/ ParseApplicationSetCall
  \/ ToAppConfigsCall
  \/ ParseResourcesCall

SpecParse == ParseInit /\ [][ParseNext]_vars

\* ------------------------------------------------------ parser claims
\* The elements of the list generators, in the order of the document
RECURSIVE ListElements(_)
ListElements(generators) ==
  IF generators = <<>> THEN <<>>
  ELSE (IF Head(generators).type = "list" THEN Head(generators).elements ELSE <<>>)
       \o ListElements(Tail(generators))

\* The ApplicationSet document that the expansion started from
ExpandedSet ==
  LET docs == pin[1].docs IN
    docs[CHOOSE k \in DOMAIN docs :
           /\ docs[k].kind = "ApplicationSet"
           /\ \A j \in 1..(k - 1) : docs[j].kind # "ApplicationSet"]

\* C17: to_app_configs of an ApplicationSet with N list-generator elements,
\* summed over its list generators, yields exactly N descriptors in element
\* order; the i-th has the name and release name of the i-th element, its origin
\* as chart name, its version as chart version, the destination namespace of the
\* ApplicationSet template as namespace and the values overlay of the
\* ApplicationSet as values object.
C17_ExpansionPerElement ==
  ppc = "expanded" =>
    LET elems == ListElements(ExpandedSet.generators) IN
      /\ Len(pout) = Len(elems)
      /\ \A i \in DOMAIN elems :
           /\ pout[i].name = Get(elems[i].name, "")
           /\ pout[i].release_name = Get(elems[i].name, "")
           /\ pout[i].chart_name = Get(elems[i].origin, "")
           /\ pout[i].chart_version = Get(elems[i].version, "")
           /\ pout[i].namespace = Get(ExpandedSet.dest_namespace, "default")
           /\ pout[i].values_object = ExpandedSet.valuesObject

\* An expansion of two list generators with three elements between them
C17_Witness ==
  /\ ppc = "expanded"
  /\ Len(pout) = 3
  /\ Len(ExpandedSet.generators) = 2
  /\ \A k \in 1..2 : ExpandedSet.generators[k].type = "list"
                     /\ ExpandedSet.generators[k].elements # <<>>
  /\ pout[1].name # pout[3].name
  /\ pout[1].values_object = "overlay"

\* The Application document that parse_argocd_application was given
ParsedApp == pin[1].docs[1]

IsSourcesCase ==
  /\ ppc = "application"
  /\ pin[1].docs # <<>>
  /\ ParsedApp.kind = "Application"

IsHelm(src) == src.chart # Absent
IsKustomize(src) == src.path \notin {Absent, ""} /\ src.ref = Absent /\ src.kustomize
IsPlain(src) == src.path \notin {Absent, ""} /\ src.ref = Absent /\ ~src.kustomize

Present(sources, Kind(_)) == \E k \in DOMAIN sources : Kind(sources[k])

\* The first entry of the kind
FirstEntry(sources, Kind(_)) ==
  sources[CHOOSE k \in DOMAIN sources :
            Kind(sources[k]) /\ \A j \in 1..(k - 1) : ~Kind(sources[j])]

\* C18: for every non-empty subset of the source kinds Helm chart, Kustomize
\* overlay and plain manifests present among the sources of an Application,
\* parse_argocd_application returns a descriptor in which each present kind is
\* populated (the chart name, the kustomize path with is_kustomize, the plain
\* manifests path) and each absent kind is empty.
C18_EverySubsetPopulated ==
  IsSourcesCase =>
    LET sources == SourcesOf(ParsedApp) IN
      (Present(sources, IsHelm) \/ Present(sources, IsKustomize) \/ Present(sources, IsPlain)) =>
        /\ pout # <<>>
        /\ Present(sources, IsHelm) <=> pout[1].chart_name # ""
        /\ Present(sources, IsKustomize) <=>
             (pout[1].is_kustomize /\ pout[1].kustomize_path # Absent)
        /\ ~Present(sources, IsKustomize) =>
             (~pout[1].is_kustomize /\ pout[1].kustomize_path = Absent)
        /\ Present(sources, IsPlain) <=> pout[1].plain_manifests_path # Absent

\* A document of the kind in the Argo API group
Matching(text, kind) ==
  \E k \in DOMAIN text.docs :
    text.docs[k].kind = kind /\ InArgoGroup(text.docs[k].apiVersion)

\* C19: the parsers return a descriptor only for a document whose kind is
\* Application or ApplicationSet and whose apiVersion contains argoproj.io,
\* whether the text is an application file, a manifest string or rendered
\* output; a text without such a document, and rendered output that does not
\* parse, gives no descriptor.
C19_OnlyArgoDocuments ==
  /\ (ppc = "application" /\ pout # <<>>) => Matching(pin[1], "Application")
  /\ (ppc = "applicationset" /\ pout # <<>>) => Matching(pin[1], "ApplicationSet")
  /\ ppc = "resources" =>
       /\ pout[1] # <<>> => Matching(pin[1], "Application")
       /\ pout[2] # <<>> => Matching(pin[1], "ApplicationSet")
       /\ pin[1].malformed => pout = <<<<>>, <<>>>>

\* C20: of several source entries of the same kind parse_argocd_application
\* honours the first: the chart is that of the first entry with a chart key, the
\* kustomize path that of the first Kustomize path entry, and the plain
\* manifests path that of the first plain path entry.
C20_FirstOfEachKind ==
  (IsSourcesCase /\ pout # <<>>) =>
    LET sources == SourcesOf(ParsedApp) IN
      /\ pout[1].chart_name # "" =>
           pout[1].chart_name = FirstEntry(sources, IsHelm).chart
      /\ pout[1].kustomize_path # Absent =>
           pout[1].kustomize_path = FirstEntry(sources, IsKustomize).path
      /\ pout[1].plain_manifests_path # Absent =>
           pout[1].plain_manifests_path = FirstEntry(sources, IsPlain).path

\* A source kind is populated among the sources
Populated(sources) ==
  Present(sources, IsHelm) \/ Present(sources, IsKustomize) \/ Present(sources, IsPlain)

\* C21: for an Application document with no populated source (no source entry,
\* or only entries that give neither a chart nor a usable path, such as an
\* entry with a ref or with an empty path) parse_argocd_application returns
\* None; it never returns a descriptor whose chart name, kustomize path and
\* plain manifests path are all empty.
C21_NoSourceNoDescriptor ==
  IsSourcesCase =>
    /\ ~Populated(SourcesOf(ParsedApp)) => pout = <<>>
    /\ pout # <<>> =>
         ~(/\ pout[1].chart_name = ""
           /\ pout[1].kustomize_path = Absent
           /\ pout[1].plain_manifests_path = Absent)

\* ------------------------------------------------ Helm template invocation
\* Largest number of values files of a descriptor.
MaxValuesFiles == 2

ValuesFileNames == {"values.yaml", "values-prod.yaml"}
InlineValuesFile == "inline-values.yaml"

\* The calls: the values_files and values_object of the descriptor, the values
\* files that exist under repo_root, whether prepare_chart_for_rendering and
\* the helm template process succeed.
TemplateCalls ==
  [values_files : UNION {[1..n -> ValuesFileNames] : n \in 0..MaxValuesFiles},
   values_object : {Absent, "overlay"},
   on_disk : SUBSET ValuesFileNames,
   prepared : BOOLEAN,
   helm_ok : BOOLEAN]

\* for vf in app.values_files: if not values_path.exists(): return False, ...
ValuesFileMissing(call) ==
  \E k \in DOMAIN call.values_files : call.values_files[k] \notin call.on_disk

\* _build_template_command(app, chart_path, repo_root, include_crds), by the
\* --values arguments in their order
BuildTemplateCommand(call) ==
  SelectSeq(call.values_files, LAMBDA vf : vf \in call.on_disk)

\* if app.values_object: write inline-values.yaml; cmd.extend(["--values", ...])
InlineValues(call) ==
  IF call.values_object # Absent THEN <<InlineValuesFile>> ELSE <<>>

TemplateResult(success, message) == [success |-> success, message |-> message]

TemplateInit ==
  /\ tcall \in {<<c>> : c \in TemplateCalls}
  /\ tcmd = <<>>
  /\ tout = <<>>
  /\ tres = <<>>
  /\ tpc = "called"
  /\ RIdle /\ DIdle /\ FIdle /\ PIdle /\ QIdle /\ SIdle

NotTemplate == <<rvars, dvars, fvars, pvars, qvars, svars>>

\* render_helm_chart(app, output_dir, repo_root, chart_path_resolver)
RenderHelmChart ==
  /\ tpc = "called"
  /\ LET call == tcall[1] IN
       IF ~call.prepared
       THEN tres' = <<TemplateResult(FALSE, "prep_msg")>> /\ UNCHANGED <<tcmd, tout>>
       ELSE IF ValuesFileMissing(call)
       THEN tres' = <<TemplateResult(FALSE, "Values file not found")>>
            /\ UNCHANGED <<tcmd, tout>>
       ELSE /\ tcmd' = Append(tcmd, BuildTemplateCommand(call))
            /\ IF call.helm_ok
               THEN tout' = <<"rendered">> /\ tres' = <<TemplateResult(TRUE, "Rendered")>>
               ELSE tout' = tout /\ tres' = <<TemplateResult(FALSE, "Helm template failed")>>
  /\ tpc' = "done"
  /\ UNCHANGED <<tcall, NotTemplate>>

\* render_helm_chart_to_string(app, repo_root, chart_path_resolver): the
\* rendered text is returned, nothing is written to an output directory
RenderHelmChartToString ==
  /\ tpc = "called"
  /\ LET call == tcall[1] IN
       IF ~call.prepared
       THEN tres' = <<TemplateResult(FALSE, "prep_msg")>> /\ tcmd' = tcmd
       ELSE IF ValuesFileMissing(call)
       THEN tres' = <<TemplateResult(FALSE, "Values file not found")>> /\ tcmd' = tcmd
       ELSE /\ tcmd' = Append(tcmd, BuildTemplateCommand(call) \o InlineValues(call))
            /\ tres' = IF call.helm_ok
                       THEN <<TemplateResult(TRUE, "prep_msg")>>
                       ELSE <<TemplateResult(FALSE, "Helm template failed")>>
  /\ tpc' = "to_string"
  /\ UNCHANGED <<tcall, tout, NotTemplate>>

TemplateNext == RenderHelmChart \/ RenderHelmChartToString

SpecTemplate == TemplateInit /\ [][TemplateNext]_vars

\* C22: every Helm template invocation made for a descriptor, by
\* render_helm_chart as by render_helm_chart_to_string, passes all values files
\* of the descriptor in declaration order and, when the descriptor has an
\* inline valuesObject, that object as a values file after all the others; when
\* a declared values file is missing on disk the render fails without invoking
\* helm template and without writing output.
C22_ValuesPassedInOrder ==
  tpc \in {"done", "to_string"} =>
    /\ \A k \in DOMAIN tcmd :
         tcmd[k] = tcall[1].values_files
                   \o (IF tcall[1].values_object # Absent
                       THEN <<InlineValuesFile>> ELSE <<>>)
    /\ ValuesFileMissing(tcall[1]) =>
         (tcmd = <<>> /\ tout = <<>> /\ ~tres[1].success)

\* ------------------------------------- render and diff of one application
\* The calls: the descriptor (which source kinds it has), the recursive flag,
\* whether the render of each source succeeds, and whether an earlier render
\* left an output directory.
SingleCalls ==
  {c \in [chart_name : {"", "chart-a"},
          kustomize_path : {Absent, "overlays/a"},
          plain_manifests_path : {Absent, "manifests/a"},
          recursive : BOOLEAN,
          helm_ok : BOOLEAN, kustomize_ok : BOOLEAN, plain_ok : BOOLEAN,
          previous : BOOLEAN] :
     c.chart_name # "" \/ c.kustomize_path # Absent \/ c.plain_manifests_path # Absent}

\* A directory with its combined _all.yaml; the per-kind files are those of the
\* documents of the combined file.
NoDir == <<>>
Dir(all) == <<[all |-> all]>>

\* What an earlier render left
OldOutput == Dir(<<DepR5>>)

\* has_helm, has_kustomize, has_plain
HasHelm(c) == c.chart_name # ""
HasKustomize(c) == c.kustomize_path # Absent
HasPlain(c) == c.plain_manifests_path # Absent

\* sum([has_helm, has_kustomize, has_plain])
SourceCount(c) ==
  (IF HasHelm(c) THEN 1 ELSE 0) + (IF HasKustomize(c) THEN 1 ELSE 0)
  + (IF HasPlain(c) THEN 1 ELSE 0)

\* render_recursive / render_helm_chart of the descriptor: (success, _all.yaml).
\* No chart can be prepared for a descriptor with an empty chart name.
HelmRender(c) ==
  IF HasHelm(c) /\ c.helm_ok THEN [success |-> TRUE, all |-> <<DepR3>>]
  ELSE [success |-> FALSE, all |-> <<>>]

\* render_kustomize(repo_root / app.kustomize_path, dir)
KustomizeRender(c) ==
  IF c.kustomize_ok THEN [success |-> TRUE, all |-> <<Svc>>]
  ELSE [success |-> FALSE, all |-> <<>>]

\* render_plain_manifests(repo_root / app.plain_manifests_path, dir)
PlainRender(c) ==
  IF c.plain_ok THEN [success |-> TRUE, all |-> <<Cm>>]
  ELSE [success |-> FALSE, all |-> <<>>]

\* The renders of the populated sources, in the order Helm, Kustomize, Plain
SourceRenders(c) ==
  (IF HasHelm(c) THEN <<HelmRender(c)>> ELSE <<>>)
  \o (IF HasKustomize(c) THEN <<KustomizeRender(c)>> ELSE <<>>)
  \o (IF HasPlain(c) THEN <<PlainRender(c)>> ELSE <<>>)

\* "\n---\n".join(combined_content)
RECURSIVE JoinAll(_)
JoinAll(renders) ==
  IF renders = <<>> THEN <<>> ELSE Head(renders).all \o JoinAll(Tail(renders))

\* Mutant of RemoveTree: the earlier output is kept.
RemoveTreeKeep(dir) == dir

\* if output_path.exists(): shutil.rmtree(output_path)
RemoveTree(dir) == NoDir

\* The single source that _render_single_app renders into output_path
SingleRender(c) ==
  IF HasKustomize(c) THEN KustomizeRender(c)
  ELSE IF HasPlain(c) THEN PlainRender(c)
  ELSE HelmRender(c)

\* The render that _diff_single_app compares with the baseline
CurrentRender(c) ==
  IF HasKustomize(c) THEN KustomizeRender(c) ELSE HelmRender(c)

SingleInit ==
  /\ scall \in {<<c>> : c \in SingleCalls}
  /\ sdir = IF scall[1].previous THEN OldOutput ELSE NoDir
  /\ sres = <<>> /\ sbase = <<>> /\ sdiff = <<>>
  /\ spc = "called"
  /\ RIdle /\ DIdle /\ FIdle /\ PIdle /\ QIdle /\ TIdle

NotSingle == <<rvars, dvars, fvars, pvars, qvars, tvars>>

\* _render_single_app(app, env, recursive, repo_root)
RenderSingleApp ==
  /\ spc = "called"
  /\ LET c == scall[1]
         cleared == RemoveTree(sdir)
         renders == SourceRenders(c)
         ok == IF SourceCount(c) > 1
               THEN \A k \in DOMAIN renders : renders[k].success
               ELSE SingleRender(c).success
     IN /\ sdir' = IF ~ok THEN cleared
                   ELSE IF SourceCount(c) > 1 THEN Dir(JoinAll(renders))
                   ELSE Dir(SingleRender(c).all)
        /\ sres' = <<[success |-> ok]>>
        /\ spc' = IF ok THEN "rendered" ELSE "failed"
  /\ UNCHANGED <<scall, sbase, sdiff, NotSingle>>

\* render_push: the _all.yaml of the rendered directory becomes the baseline
RenderPush ==
  /\ spc = "rendered"
  /\ sdir # NoDir
  /\ sbase' = <<sdir[1].all>>
  /\ spc' = "pushed"
  /\ UNCHANGED <<scall, sdir, sres, sdiff, NotSingle>>

\* _diff_single_app(args), the baseline being stored
DiffSingleAppCall ==
  /\ spc = "pushed"
  /\ LET c == scall[1]
         cur == CurrentRender(c)
     IN sdiff' =
          IF ~cur.success
          THEN <<[has_diff |-> FALSE, error |-> TRUE, current |-> <<>>]>>
          ELSE IF DiffManifestsRaises(sbase[1], cur.all)
          THEN <<[has_diff |-> FALSE, error |-> TRUE, current |-> cur.all]>>
          ELSE <<[has_diff |-> DiffManifests(sbase[1], cur.all).has_diff,
                  error |-> FALSE, current |-> cur.all]>>
  /\ spc' = "diffed"
  /\ UNCHANGED <<scall, sdir, sres, sbase, NotSingle>>

SingleNext == RenderSingleApp \/ RenderPush \/ DiffSingleAppCall

SpecSingle == SingleInit /\ [][SingleNext]_vars

\* C29: the current-side render that _diff_single_app compares with the stored
\* baseline is produced from the same populated sources, combined in the same
\* Helm, Kustomize, Plain order, as the output _render_single_app writes and
\* that is pushed as the baseline; an unchanged application diffed against its
\* own pushed render gives hasDiff = false.
C29_DiffRendersWhatWasPushed ==
  spc = "diffed" =>
    /\ ~sdiff[1].error
    /\ sdiff[1].current = sbase[1]
    /\ ~sdiff[1].has_diff

\* C30 as stated: a render by _render_single_app that fails leaves the earlier
\* output directory of the application unchanged, the earlier combined file and
\* per-kind files being present with their earlier content.
C30_FailedRenderKeepsOutput ==
  (spc = "failed" /\ scall[1].previous) => sdir = OldOutput

\* C30 amended: _render_single_app removes the earlier output directory before
\* it renders any source, so after a render that returns failure the earlier
\* combined file and per-kind files are gone and nothing has been written in
\* their place; after a successful one the directory holds the new render only.
C30_FailedRenderLeavesNothing ==
  /\ spc = "failed" => (sdir = NoDir /\ ~sres[1].success)
  /\ spc = "rendered" =>
       (sdir # NoDir /\ sdir # OldOutput /\ sres[1].success)

\* C30 witness: a multi-source application with an earlier output whose
\* Kustomize render fails after its Helm render succeeded
C30_Witness ==
  /\ spc = "failed" /\ scall[1].previous
  /\ SourceCount(scall[1]) > 1
  /\ HasHelm(scall[1]) /\ scall[1].helm_ok
  /\ HasKustomize(scall[1]) /\ ~scall[1].kustomize_ok
  /\ sdir = NoDir

\* ------------------------------------- render_recursive: further claims
\* A call that was submitted or started and has not ended
Running(f) == frame[f].pc \in Executing \cup {"called", "queued"}

\* C23: when a child raises the token expiry in the parallel branch, the
\* sibling tasks are not cancelled: each runs to completion or to its own
\* failure, and the exception reaches the caller only after every task
\* submitted at that level has ended; when render_recursive returns or raises,
\* none of the tasks it submitted is still running.
C23_NoTaskOutlivesItsLevel ==
  \A p \in DOMAIN frame :
    frame[p].pc \in Done =>
      /\ \A f \in DOMAIN frame : (IsPrefix(p, f) /\ f # p) => ~Running(f)
      /\ (frame[p].mode = "par" /\ frame[p].pc = "raised") =>
           \A i \in KidIdx(p) : frame[KidFrame(p, i)].pc \in Done

\* C23 witness: the top-level call raised the token expiry of one child while
\* as_completed had not yielded another child, whose render succeeded and
\* which returned.
C23_Witness ==
  /\ frame[<<>>].mode = "par" /\ frame[<<>>].pc = "raised"
  /\ \E i \in KidIdx(<<>>) : frame[<<i>>].exc = "auth"
  /\ \E j \in KidIdx(<<>>) \ frame[<<>>].collected :
       /\ frame[<<j>>].pc = "returned"
       /\ frame[<<j>>].outcome = "ok"

\* C24: the parallel and max_workers arguments of the top-level call apply at
\* every recursion level: with parallel = False no two renders of the tree
\* execute at the same time, and with max_workers = W no level has more than W
\* of its child renders executing at the same time.
C24_ArgumentsApplyAtEveryLevel ==
  /\ ~parallel => Cardinality({f \in DOMAIN frame : frame[f].pc = "rendering"}) <= 1
  /\ \A p \in DOMAIN frame :
       Cardinality({g \in DOMAIN frame : IsKid(g, p) /\ frame[g].pc \in Executing})
         <= max_workers

\* The top-level call ends
Terminated == frame[<<>>].pc \in Done

\* No chain from the root renders more than max_depth descriptors
ChainsBounded ==
  \A f \in DOMAIN frame : frame[f].outcome # "none" => Len(f) + 1 <= max_depth

\* C25: render_recursive terminates for every app-of-apps structure, also one
\* whose rendered output holds the descriptor itself or an ancestor, provided
\* each external render call returns; no root-to-leaf chain renders more than
\* max_depth descriptors.
C25_Terminates == <>Terminated /\ []ChainsBounded

\* C25 witness: the cycle root -> a -> root was followed down to max_depth, where
\* the call for the descriptor that is its own ancestor returned without
\* rendering, and the top-level call returned.
C25_Witness ==
  /\ shape = "cycle" /\ max_depth = 2
  /\ frame[<<>>].pc = "returned"
  /\ AppAt(shape, <<1, 1>>) = "root"
  /\ frame[<<1, 1>>].pc = "returned" /\ frame[<<1, 1>>].msg = MaxDepthMsg
  /\ frame[<<1>>].outcome = "ok"

\* The call for a child has been made or submitted
Given(f) == frame[f].pc # "absent"

\* C26: within one recursion level no two children are given the same output
\* subdirectory, so no two sibling renders write the same files, also when a
\* nested Application and an ApplicationSet element have the same name.
C26_DistinctChildDirectories ==
  \A g \in DOMAIN frame : \A h \in DOMAIN frame :
    (/\ g # h /\ g # <<>> /\ h # <<>> /\ Parent(g) = Parent(h)
     /\ Given(g) /\ Given(h))
    => DirOf(shape, g) # DirOf(shape, h)

\* The result of a level as both branches are to give it, from the outcomes of
\* its children
KidsRendered(p) ==
  UNION {Range(frame[KidFrame(p, i)].rendered) :
           i \in {j \in KidIdx(p) : /\ frame[KidFrame(p, j)].pc = "returned"
                                    /\ frame[KidFrame(p, j)].success}}

KidsErrors(p) ==
  {ChildError(NameOf(KidFrame(p, i)), KidFailText(frame[KidFrame(p, i)])) :
     i \in {j \in KidIdx(p) : KidFailed(frame[KidFrame(p, j)])}}

\* C27: for the same children and the same outcomes of the children, the
\* sequential and the parallel branch of render_recursive give the same
\* result: the same success flag, the same set of rendered names and the same
\* set of child errors; a child whose render raises an exception that is not
\* the token expiry is recorded as a child error in both branches and aborts
\* neither.
C27_BranchesAgree ==
  \A p \in DOMAIN frame :
    (/\ frame[p].pc \in Done
     /\ frame[p].mode \in {"par", "seq"}
     /\ \A i \in KidIdx(p) : frame[KidFrame(p, i)].exc # "auth")
    => /\ frame[p].pc = "returned"
       /\ frame[p].success
       /\ Range(frame[p].rendered) = {NameOf(p)} \cup KidsRendered(p)
       /\ Range(frame[p].msg.errors) = KidsErrors(p)

\* ------------------------------------------ _diff_manifests: further claim
\* The non-empty documents of a stream, trimmed
DocTexts(stream) ==
  {Strip(stream[k]) : k \in {j \in DOMAIN stream : stream[j].cls # "blank"}}

\* C28: _diff_manifests misses no change: whenever a non-empty document of the
\* baseline has no document with the same trimmed text in the current stream,
\* or the other way round, hasDiff is true, also when two documents of a stream
\* share one identity and when a document is not a mapping.
C28_NoChangeMissed ==
  (dpc \in {"done", "raised"} /\ DocTexts(baseline_content) # DocTexts(new_content))
  => (dpc = "done" /\ has_diff)

====
